---- MODULE Spec2Model ----
(***************************************************************************)
(* Client-side game state of the Werewolf voice game front-end.            *)
(*                                                                         *)
(* The repository holds several variants of the GameRoom component.  Each  *)
(* variant is modelled as its own state machine over its own variables:    *)
(*   Spec      the GameRoom of src/unnamed/part_003 (second component,     *)
(*             lines 500-1025) with the GameUI of src/unnamed/part_005;    *)
(*   SpecEvents  the first GameRoom of src/unnamed/part_003 (lines 20-498),*)
(*             which speaks the game_event / user_action protocol;         *)
(*   SpecJsx   src/frontend/src/components/GameRoom.jsx;                   *)
(*   SpecHtml  the single-page client of src/unnamed/part_000.             *)
(*                                                                         *)
(* JavaScript values: an optional field of a JSON payload is a set with at *)
(* most one element ({} is "absent/undefined"); null and undefined held in *)
(* the state are the strings Null and Undefined.                           *)
(***************************************************************************)
EXTENDS Integers, Sequences, FiniteSets, TLC

VARIABLES
    gameState,        \* part_003: React state gameState
    speakTimeoutRef,  \* part_003: speakTimeoutRef.current (timer handle, 0 = null)
    timers,           \* part_003: pending browser timers {[id, left]}
    nextTimerId,      \* part_003: next handle setTimeout returns
    isMounted,        \* part_003: isMounted.current
    selectedPlayer,   \* part_005: VotingInterface local state
    selectedTarget,   \* part_005: TargetSelection local state
    outbox,           \* part_003: messages published on the data channel
    uncaught,         \* part_003: an exception escaped a handler
    consoleErrors,    \* part_003: console.error('Failed to parse data message') calls
    prev,             \* history: gameState before the last event
    jsxGameState,     \* GameRoom.jsx: React state gameState
    canSpeak,         \* GameRoom.jsx: React state canSpeak
    isVoting,         \* GameRoom.jsx: React state isVoting
    votedPlayer,      \* GameRoom.jsx: React state votedPlayer
    currentTurn,      \* GameRoom.jsx: React state currentTurn
    participants,     \* GameRoom.jsx: React state participants (identities)
    remoteParticipants, \* GameRoom.jsx: room.remoteParticipants (identities in the room)
    jsxTimers,        \* GameRoom.jsx: pending browser timers {[id, left, kind]}
    jsxNextTimerId,   \* GameRoom.jsx: next handle setTimeout returns
    jsxCrashed,       \* GameRoom.jsx: an exception left a render and React unmounted the tree
    jsxUnmounted,     \* GameRoom.jsx: the parent removed the component from the tree
    jsxConsoleErrors, \* GameRoom.jsx: console.error calls
    html,             \* part_000: the script's gameState and the DOM it writes
    htmlTimers,       \* part_000: pending browser timers {[id, left, kind, announcement]}
    htmlNextId,       \* part_000: next timer handle / announcement node
    htmlOutbox,       \* part_000: messages published on the data channel
    htmlConsoleErrors, \* part_000: console.error calls
    evGameState,      \* part_003 (first GameRoom): React state gameState
    evSpeakTimeoutRef, \* part_003 (first GameRoom): speakTimeoutRef.current (0 = null)
    evTimers,         \* part_003 (first GameRoom): pending browser timers {[id, left]}
    evNextTimerId,    \* part_003 (first GameRoom): next handle setTimeout returns
    evConsoleErrors,  \* part_003 (first GameRoom): console.error calls of onDataReceived
    app,              \* App.jsx / part_002: the React state of App and of useLiveKit
    closure,          \* App.jsx / part_002: the state captured by the last render's handlers
    calls,            \* App.jsx / part_002: async functions suspended at an await
    interval,         \* part_002: room id the polling interval asks for ("" = no interval)
    nCalls,           \* history: number of handler calls so far
    taskCalls,        \* history: number of handler calls since React rendered last
    nRooms,           \* history: number of Room objects constructed
    srvAccepted,      \* history: ready value the backend accepted last since the join ({} = none)
    srvStarted,       \* history: the game of the joined room was started
    startOk,          \* history: the last handleStartGame that set the game view had isCreator,
                      \* allReady and a start-game request that succeeded
    lastEvent,        \* history: the last event handled (any variant)
    nEvents           \* history: number of external events so far (any variant)

\* the variables of each variant
vars003 == <<gameState, speakTimeoutRef, timers, nextTimerId, isMounted,
             selectedPlayer, selectedTarget, outbox, uncaught, consoleErrors, prev>>

varsJsx == <<jsxGameState, canSpeak, isVoting, votedPlayer, currentTurn, participants,
             remoteParticipants, jsxTimers, jsxNextTimerId, jsxCrashed, jsxUnmounted,
             jsxConsoleErrors>>

varsHtml == <<html, htmlTimers, htmlNextId, htmlOutbox, htmlConsoleErrors>>

varsEvents == <<evGameState, evSpeakTimeoutRef, evTimers, evNextTimerId, evConsoleErrors>>

varsApp == <<app, closure, calls, interval, nCalls, taskCalls, nRooms, srvAccepted,
             srvStarted, startOk>>

----------------------------------------------------------------------------
(* Bounds of the model *)

MaxEvents == 3       \* inbound events (data messages, participant events) per run
MaxCalls == 4        \* handler calls of the App per run
MaxCallsPerTask == 2 \* handler calls of the App before React renders

(* Program constants *)

DefaultSpeakTimeout == 5
InitialMaxTurns == 8

----------------------------------------------------------------------------
(* JavaScript values *)

Null == "null"
Undefined == "undefined"

Some(x) == {x}
Has(o) == o # {}
Get(o) == CHOOSE x \in o : TRUE

\* o || d for an optional string: undefined and the empty string are falsy
StrOr(o, d) == IF Has(o) /\ Get(o) # "" THEN Get(o) ELSE d
\* o || d for an optional number: undefined and 0 are falsy
NumOr(o, d) == IF Has(o) /\ Get(o) # 0 THEN Get(o) ELSE d
\* the value a destructured optional string has
StrOf(o) == IF Has(o) THEN Get(o) ELSE Undefined
\* truthiness of a string held in the state
Truthy(s) == s \notin {Null, Undefined, ""}

Max(a, b) == IF a >= b THEN a ELSE b

Range(s) == {s[i] : i \in 1..Len(s)}

\* { ...m, [k]: v }
Put(m, k, v) == [x \in (DOMAIN m) \cup {k} |-> IF x = k THEN v ELSE m[x]]

EmptyMap == [x \in {} |-> x]

----------------------------------------------------------------------------
(* Identities *)

LocalId == "A"       \* room.localParticipant.identity
PlayerName == "A"    \* prop playerName
PlayerRole == "Villager"
IdSeq == <<"A", "B", "C">>
Ids == Range(IdSeq)

----------------------------------------------------------------------------
(* Wire messages (inbound)                                                 *)
(* {type, update_type?, game_state?, data?, ...flattened legacy fields}    *)
(* The flattened fields of a message are its field top.                    *)

EmptyData ==
    [round |-> {}, speaker |-> {}, dialogue |-> {}, turn |-> {}, voter |-> {},
     target |-> {}, votes |-> {}, results |-> {}, player |-> {}, timeout |-> {},
     prompt |-> {}, text |-> {}, action |-> {}, options |-> {}, phase |-> {},
     players |-> {}, id |-> {}, isAlive |-> {}, role |-> {}, speakTime |-> {},
     maxTurns |-> {}, message |-> {}, timestamp |-> {}, event |-> {},
     exiled_player |-> {}, speaking_ended |-> {}, icon |-> {}, announcement |-> {}]

\* message.data?.f : the field f of data, undefined when data is absent
DataOf(message) == IF Has(message.data) THEN Get(message.data) ELSE EmptyData

Msg(type, update_type, game_state, data) ==
    [type |-> type, update_type |-> update_type, game_state |-> game_state,
     data |-> data, top |-> EmptyData]

\* a player object of a payload; name, role and isAlive are optional
P(id, isAlive) == [id |-> id, name |-> {id}, role |-> {}, isAlive |-> isAlive]

\* player lists a server payload carries: the three players in join order, none
\* or the second of them marked dead, the others without an isAlive field
PlayerLists ==
    {[i \in 1..3 |-> P(IdSeq[i], IF i = d THEN {FALSE} ELSE {})] : d \in {0, 2}}

AllAlive == CHOOSE l \in PlayerLists : \A i \in 1..3 : l[i].isAlive = {}

\* a list in which the display name of the third player is the id of the second
NameClash == [AllAlive EXCEPT ![3].name = {IdSeq[2]}]

EmptyGameState ==
    [players |-> {}, current_players |-> {}, phase |-> {}, round |-> {},
     observations |-> {}, role |-> {}, debate_turns_left |-> {}, num_players |-> {},
     remaining_players |-> {}]

\* a payload with every scalar field and the players
RichGameState ==
    [EmptyGameState EXCEPT !.players = {AllAlive}, !.phase = {"night"}, !.round = {2},
                           !.debate_turns_left = {3}, !.num_players = {3}]

\* full game_state payloads
GameStates ==
    {[EmptyGameState EXCEPT !.players = {l}] : l \in PlayerLists}
    \cup {[EmptyGameState EXCEPT !.players = {AllAlive},
                                 !.current_players = {<<"A", "C">>}],
          [EmptyGameState EXCEPT !.phase = {"night"}, !.round = {2},
                                 !.debate_turns_left = {3}, !.num_players = {3}],
          [EmptyGameState EXCEPT !.players = {AllAlive}, !.role = {"Seer"},
                                 !.observations = {<<"obs">>}],
          [EmptyGameState EXCEPT !.observations = {<<>>}],
          [EmptyGameState EXCEPT !.players = {NameClash}]}

----------------------------------------------------------------------------
(* GameRoom of part_003: the state and its reducers *)

\* values of voting.results: null, undefined, or an object
JsNull == [kind |-> "null"]
JsUndefined == [kind |-> "undefined"]
JsValue(v) == [kind |-> "value", value |-> v]

InitialGameState ==
    [phase |-> "lobby",
     round |-> 0,
     players |-> <<>>,
     currentPlayer |-> [id |-> LocalId, name |-> PlayerName, role |-> PlayerRole,
                        isHost |-> FALSE],
     logs |-> <<>>,
     announcements |-> <<>>,
     debate |-> [current_speaker |-> Null, current_turn |-> 0,
                 max_turns |-> InitialMaxTurns, history |-> <<>>,
                 turns_left |-> InitialMaxTurns],
     voting |-> [active |-> FALSE, votes |-> EmptyMap, voted_player |-> Null,
                 results |-> JsNull],
     targetSelection |-> [active |-> FALSE, action |-> Null, options |-> <<>>,
                          prompt |-> ""],
     interaction |-> [can_speak |-> FALSE, speak_timeout |-> Null,
                      speaking_prompt |-> ""]]

\* prev.players.find(p => p.id === player.id) || {}
existingPlayer(players, id) ==
    LET hits == {i \in 1..Len(players) : players[i].id = id}
    IN  IF hits = {}
        THEN [id |-> Undefined, name |-> Undefined, role |-> Undefined, isAlive |-> TRUE]
        ELSE players[CHOOSE i \in hits : \A j \in hits : i <= j]

\* { ...existingPlayer, ...player, isAlive: player.isAlive !== undefined ? player.isAlive : true }
mergePlayer(existing, player) ==
    [id |-> player.id,
     name |-> IF Has(player.name) THEN Get(player.name) ELSE existing.name,
     role |-> IF Has(player.role) THEN Get(player.role) ELSE existing.role,
     isAlive |-> IF Has(player.isAlive) THEN Get(player.isAlive) ELSE TRUE]

updatedPlayers(prevState, newGameState) ==
    LET list == IF Has(newGameState.players) THEN Get(newGameState.players) ELSE <<>>
        merged == [i \in 1..Len(list) |->
                      mergePlayer(existingPlayer(prevState.players, list[i].id), list[i])]
    IN  IF Has(newGameState.current_players)
        THEN [i \in 1..Len(merged) |->
                 [merged[i] EXCEPT !.isAlive =
                     (IF Truthy(merged[i].id) THEN merged[i].id ELSE merged[i].name)
                         \in Range(Get(newGameState.current_players))]]
        ELSE merged

handleGameStateUpdate(prevState, newGameState) ==
    [prevState EXCEPT
        !.phase = StrOr(newGameState.phase, prevState.phase),
        !.round = NumOr(newGameState.round, prevState.round),
        !.players = updatedPlayers(prevState, newGameState),
        !.logs = IF Has(newGameState.observations)
                 THEN Get(newGameState.observations) ELSE prevState.logs,
        !.currentPlayer.role = StrOr(newGameState.role, prevState.currentPlayer.role),
        !.debate.turns_left =
            NumOr(newGameState.debate_turns_left, prevState.debate.turns_left),
        !.debate.max_turns = NumOr(newGameState.num_players, prevState.debate.max_turns)]

day_phase_start(prevState, message) ==
    [prevState EXCEPT
        !.phase = "day",
        !.round = NumOr(DataOf(message).round, prevState.round),
        !.debate.current_speaker = Null,
        !.debate.current_turn = 0,
        !.debate.history = <<>>,
        !.voting.active = FALSE,
        !.voting.voted_player = Null,
        !.voting.votes = EmptyMap,
        !.interaction.can_speak = FALSE]

night_phase_start(prevState, message) ==
    [prevState EXCEPT
        !.phase = "night",
        !.round = NumOr(DataOf(message).round, prevState.round),
        !.interaction.can_speak = FALSE]

debate_update(prevState, message) ==
    LET speaker == StrOf(DataOf(message).speaker)
        dialogue == StrOf(DataOf(message).dialogue)
        turn == DataOf(message).turn
        newTurn == NumOr(turn, prevState.debate.current_turn + 1)
    IN  [prevState EXCEPT
            !.phase = "day",
            !.debate.current_speaker = speaker,
            !.debate.current_turn = newTurn,
            !.debate.history =
                Append(@, [speaker |-> speaker, dialogue |-> dialogue, turn |-> turn]),
            !.debate.turns_left = Max(0, prevState.debate.max_turns - newTurn)]

voting_phase(prevState, message) ==
    [prevState EXCEPT !.phase = "voting", !.interaction.can_speak = FALSE]

voting_started(prevState, message) ==
    [prevState EXCEPT !.voting.active = TRUE, !.voting.votes = EmptyMap,
                      !.voting.voted_player = Null]

\* first write wins: { [voter]: target, ...prev.voting.votes }
vote_received_keepsFirst(prevState, message) ==
    LET voter == StrOf(DataOf(message).voter)
        target == StrOf(DataOf(message).target)
    IN  [prevState EXCEPT
            !.voting.votes = IF voter \in DOMAIN @ THEN @ ELSE Put(@, voter, target)]

vote_received(prevState, message) ==
    LET voter == StrOf(DataOf(message).voter)
        target == StrOf(DataOf(message).target)
    IN  [prevState EXCEPT !.voting.votes = Put(@, voter, target)]

voting_ended(prevState, message) ==
    [prevState EXCEPT
        !.voting.active = FALSE,
        !.voting.results = IF Has(DataOf(message).votes)
                           THEN JsValue(Get(DataOf(message).votes))
                           ELSE JsValue(prevState.voting.votes)]

voting_results(prevState, message) ==
    [prevState EXCEPT
        !.voting.results = IF Has(DataOf(message).results)
                           THEN JsValue(Get(DataOf(message).results))
                           ELSE JsUndefined]

player_exiled(prevState, message) ==
    LET exiledPlayer == StrOf(DataOf(message).player)
    IN  [prevState EXCEPT
            !.players = [i \in 1..Len(@) |->
                            IF @[i].id = exiledPlayer \/ @[i].name = exiledPlayer
                            THEN [@[i] EXCEPT !.isAlive = FALSE]
                            ELSE @[i]]]

\* the default case falls through into a reset of the phase
updateBasedOnType_defaultResets(prevState, message) ==
    LET t == StrOf(message.update_type)
    IN  CASE t = "day_phase_start" -> day_phase_start(prevState, message)
          [] t = "night_phase_start" -> night_phase_start(prevState, message)
          [] t = "debate_update" -> debate_update(prevState, message)
          [] t = "voting_phase" -> voting_phase(prevState, message)
          [] t = "voting_started" -> voting_started(prevState, message)
          [] t = "vote_received" -> vote_received(prevState, message)
          [] t = "voting_ended" -> voting_ended(prevState, message)
          [] t = "voting_results" -> voting_results(prevState, message)
          [] t = "player_exiled" -> player_exiled(prevState, message)
          [] OTHER -> [prevState EXCEPT !.phase = "lobby"]

updateBasedOnType(prevState, message) ==
    LET t == StrOf(message.update_type)
    IN  CASE t = "day_phase_start" -> day_phase_start(prevState, message)
          [] t = "night_phase_start" -> night_phase_start(prevState, message)
          [] t = "debate_update" -> debate_update(prevState, message)
          [] t = "voting_phase" -> voting_phase(prevState, message)
          [] t = "voting_started" -> voting_started(prevState, message)
          [] t = "vote_received" -> vote_received(prevState, message)
          [] t = "voting_ended" -> voting_ended(prevState, message)
          [] t = "voting_results" -> voting_results(prevState, message)
          [] t = "player_exiled" -> player_exiled(prevState, message)
          [] OTHER -> prevState

\* the direct (non game_state_update) cases of onDataReceived
directMessage(prevState, message, now) ==
    LET t == message.type
        data == DataOf(message)
    IN  CASE t = "can_speak" ->
                [prevState EXCEPT
                    !.interaction.can_speak = TRUE,
                    !.interaction.speaking_prompt = StrOr(data.prompt, "You can speak now!")]
          [] t \in {"speaking_ended", "debate_turn"} ->
                [prevState EXCEPT
                    !.interaction.can_speak = (t = "debate_turn"),
                    !.interaction.speaking_prompt =
                        IF t = "debate_turn" THEN "It's your turn to speak!" ELSE ""]
          [] t = "request_vote" ->
                [prevState EXCEPT !.voting.active = TRUE, !.voting.voted_player = Null]
          [] t = "announcement" ->
                IF StrOr(data.text, "") # ""
                THEN [prevState EXCEPT
                        !.announcements =
                            Append(@, [id |-> now, message |-> Get(data.text),
                                        timestamp |-> now])]
                ELSE prevState
          [] t = "request_target_selection" ->
                IF Has(message.data)
                THEN [prevState EXCEPT
                        !.targetSelection =
                            [active |-> TRUE, action |-> StrOf(data.action),
                             options |-> Get(data.options),
                             prompt |-> StrOf(data.prompt)]]
                ELSE prevState
          [] OTHER -> prevState

\* what the switch of onDataReceived does to gameState for a decoded message
handleDecoded(prevState, message, now) ==
    IF message.type = "game_state_update"
    THEN updateBasedOnType(
             IF Has(message.game_state)
             THEN handleGameStateUpdate(prevState, Get(message.game_state))
             ELSE prevState,
             message)
    ELSE directMessage(prevState, message, now)

\* the updater functions onDataReceived hands to setGameState for a decoded
\* message, in call order; now is Date.now() at the time of the call
updaters(message, now) ==
    IF message.type = "game_state_update"
    THEN (IF Has(message.game_state)
          THEN <<[fn |-> "handleGameStateUpdate", message |-> message, now |-> now]>>
          ELSE <<>>)
         \o <<[fn |-> "updateBasedOnType", message |-> message, now |-> now]>>
    ELSE <<[fn |-> "onDataReceived", message |-> message, now |-> now]>>

\* an updater that spreads the gameState of the render it was created in
\* (setGameState({...gameState, ...})) and ignores the state React passes
applyUpdater_fromClosure(prevState, rendered, updater) ==
    CASE updater.fn = "handleGameStateUpdate" ->
            handleGameStateUpdate(rendered, Get(updater.message.game_state))
      [] updater.fn = "updateBasedOnType" ->
            updateBasedOnType(rendered, updater.message)
      [] OTHER -> directMessage(rendered, updater.message, updater.now)

\* one updater: every setGameState call has the form setGameState(prev => ...),
\* it reads the state React passes and never the gameState of the render
applyUpdater(prevState, rendered, updater) ==
    CASE updater.fn = "handleGameStateUpdate" ->
            handleGameStateUpdate(prevState, Get(updater.message.game_state))
      [] updater.fn = "updateBasedOnType" ->
            updateBasedOnType(prevState, updater.message)
      [] OTHER -> directMessage(prevState, updater.message, updater.now)

\* React runs the queued updaters in order, each on the result of the one before
RECURSIVE processUpdateQueue(_, _, _)
processUpdateQueue(state, rendered, queue) ==
    IF queue = <<>>
    THEN state
    ELSE processUpdateQueue(applyUpdater(state, rendered, Head(queue)), rendered,
                            Tail(queue))

\* a catch block that writes the error into the game log
handleDecodeError_logs(prevState) ==
    [prevState EXCEPT !.logs = Append(@, "Error processing game message")]

\* what the catch block of onDataReceived does to gameState (console.error only)
handleDecodeError(prevState) == prevState

----------------------------------------------------------------------------
(* Message decoder: JSON.parse(new TextDecoder().decode(payload)) *)

Encode(message) == [wellFormed |-> TRUE, value |-> {message}]
Malformed == [wellFormed |-> FALSE, value |-> {}]

\* JSON.parse: throws a SyntaxError on text that is not JSON
JSONParse(payload) == [threw |-> ~payload.wellFormed, value |-> payload.value]

----------------------------------------------------------------------------
(* Inbound messages the model delivers to part_003 *)

Upd(update_type, data) == Msg("game_state_update", {update_type}, {}, data)
Direct(type, data) == Msg(type, {}, {}, data)

SomeVotes == [v \in {"B"} |-> "C"]

DeltaMessages ==
    {Upd("day_phase_start", d) :
        d \in {{}, {[EmptyData EXCEPT !.round = {1}]},
               {[EmptyData EXCEPT !.round = {1}, !.players = {AllAlive}]}}}
    \cup {Upd("night_phase_start", {[EmptyData EXCEPT !.round = {2}]})}
    \cup {Upd("debate_update",
              {[EmptyData EXCEPT !.speaker = {"B"}, !.dialogue = {"hello"}, !.turn = t]}) :
              t \in {{}, {1}, {3}}}
    \cup {Upd("debate_update", {})}
    \cup {Upd("voting_phase", {}), Upd("voting_started", {})}
    \cup {Upd("vote_received", {[EmptyData EXCEPT !.voter = {vt[1]}, !.target = {vt[2]}]}) :
              vt \in {<<"A", "B">>, <<"A", "C">>, <<"B", "C">>}}
    \cup {Upd("voting_ended", d) : d \in {{}, {[EmptyData EXCEPT !.votes = {SomeVotes}]}}}
    \cup {Upd("voting_results", {[EmptyData EXCEPT !.results = {SomeVotes}]})}
    \cup {Upd("player_exiled", {[EmptyData EXCEPT !.player = {x}]}) : x \in Ids}
    \cup {Upd("phase_change", {[EmptyData EXCEPT !.phase = {"night"}, !.round = {2}]})}
    \cup {Upd("player_update", {[EmptyData EXCEPT !.id = {"B"}, !.isAlive = {FALSE}]})}

\* update types and outer types no variant knows
UnknownMessages ==
    {Upd("frobnicate", {}), Direct("frobnicate", {})}

FullMessages == {Msg("game_state_update", {}, {gs}, {}) : gs \in GameStates}

\* one message carrying a full game_state and an update_type delta
CombinedMessages ==
    {[m EXCEPT !.game_state = {gs}] :
        m \in {Upd("day_phase_start", {[EmptyData EXCEPT !.round = {1}]}),
               Upd("debate_update",
                   {[EmptyData EXCEPT !.speaker = {"B"}, !.dialogue = {"hello"},
                                      !.turn = {1}]}),
               Upd("player_exiled", {[EmptyData EXCEPT !.player = {"B"}]}),
               Upd("frobnicate", {})},
        gs \in {RichGameState}}

DirectMessages ==
    {Direct("can_speak", d) : d \in {{}, {[EmptyData EXCEPT !.timeout = {2}]}}}
    \cup {Direct("speaking_ended", {}), Direct("debate_turn", {}),
          Direct("request_vote", {})}
    \cup {Direct("announcement", d) : d \in {{}, {[EmptyData EXCEPT !.text = {"news"}]}}}
    \cup {Direct("request_target_selection", {})}
    \cup {Direct("request_target_selection",
                 {[EmptyData EXCEPT !.action = {"eliminate"}, !.options = {o},
                                    !.prompt = {"Choose"}]}) :
              o \in {<<"B", "C">>}}

Messages ==
    DeltaMessages \cup UnknownMessages \cup FullMessages \cup CombinedMessages
    \cup DirectMessages

Payloads == {Encode(m) : m \in Messages} \cup {Malformed}

----------------------------------------------------------------------------
(* onDataReceived of part_003 *)

\* the handler's outcome: the next gameState, whether an exception left the
\* handler, and whether console.error reported a decode error
onDataReceived(prevState, mounted, payload, now) ==
    IF ~mounted
    THEN [state |-> prevState, threw |-> FALSE, error |-> FALSE]
    ELSE LET parsed == JSONParse(payload)
         IN  IF parsed.threw
             THEN [state |-> handleDecodeError(prevState), threw |-> FALSE,
                   error |-> TRUE]
             ELSE [state |-> handleDecoded(prevState, Get(parsed.value), now),
                   threw |-> FALSE, error |-> FALSE]

\* clearTimeout(handle)
clearTimeout(pending, handle) == {t \in pending : t.id # handle}

\* the speak-timeout callback
speakTimeoutCallback(prevState) ==
    [prevState EXCEPT !.interaction.can_speak = FALSE,
                      !.interaction.speaking_prompt = ""]

----------------------------------------------------------------------------
(* VotingInterface of part_005 and handleVote of part_003 *)

playerId(player) == IF Truthy(player.id) THEN player.id ELSE player.name

\* GameUI renders VotingInterface iff phase === 'voting' || voting.active
VotingInterfaceMounted(state) == TRUE \in {state.phase = "voting", state.voting.active}

hasVoted(state) == state.voting.voted_player # Null

\* filterPlayers of VotingInterface
filterPlayers(player) == player.isAlive /\ playerId(player) # PlayerName

\* the ids whose PlayerGrid button is rendered and enabled
selectablePlayers(state) ==
    {playerId(state.players[i]) : i \in {j \in 1..Len(state.players) :
                                            filterPlayers(state.players[j])}}

\* local component state is lost when the component leaves the tree
keepSelection(state, selection) ==
    IF VotingInterfaceMounted(state) THEN selection ELSE Null

\* what room.localParticipant.publishData does with a message: it is sent, it
\* throws, or the promise it returns is rejected later
PublishOutcomes == {"sent", "throws", "rejects"}

\* sendMessage: the try/catch turns a throw into the result false; the promise
\* is neither awaited nor given a catch handler, so a rejection still returns true
sendMessage(sent, message, publish) ==
    [sent |-> IF publish = "sent" THEN Append(sent, message) ELSE sent,
     result |-> publish # "throws"]

\* filterPlayers of TargetSelection
filterTargets(state, player) ==
    \/ playerId(player) \in Range(state.targetSelection.options)
    \/ player.name \in Range(state.targetSelection.options)

\* the ids whose PlayerGrid button of the target selection is rendered and
\* enabled: disabled = isSelf || !player.isAlive
selectableTargets(state) ==
    {playerId(state.players[i]) :
        i \in {j \in 1..Len(state.players) :
                  /\ filterTargets(state, state.players[j])
                  /\ state.players[j].isAlive
                  /\ playerId(state.players[j]) # PlayerName}}

\* handleTargetSelection: sends and closes the target selection whatever the
\* result of sendMessage was
handleTargetSelection(prevState, sent, target, publish) ==
    LET published == sendMessage(sent, [type |-> "target_selection", target |-> target],
                                 publish)
    IN  [state |-> [prevState EXCEPT
                        !.targetSelection = [active |-> FALSE, action |-> Null,
                                             options |-> <<>>, prompt |-> ""]],
         sent |-> published.sent,
         result |-> Undefined]

\* a handleVote that publishes and leaves voting.voted_player alone
handleVote_keepsOpen(prevState, sent, target, publish) ==
    LET published == sendMessage(sent, [type |-> "vote", target |-> target], publish)
    IN  [state |-> prevState, sent |-> published.sent, result |-> Undefined]

\* handleVote: the result of sendMessage is dropped, voted_player is written
\* whatever it was, and the handler itself returns nothing
handleVote(prevState, sent, target, publish) ==
    LET published == sendMessage(sent, [type |-> "vote", target |-> target], publish)
    IN  [state |-> [prevState EXCEPT !.voting.voted_player = target],
         sent |-> published.sent,
         result |-> Undefined]

----------------------------------------------------------------------------
(* Actions of part_003 *)

aliveIds(state) ==
    {playerId(state.players[i]) : i \in {j \in 1..Len(state.players) :
                                            state.players[j].isAlive}}

\* the server asks for a target only among the players the client shows alive
ServerSends(state, payload) ==
    IF payload.wellFormed
    THEN LET message == Get(payload.value)
         IN  IF message.type = "request_target_selection" /\ Has(message.data)
             THEN Range(Get(DataOf(message).options)) \subseteq aliveIds(state)
             ELSE TRUE
    ELSE TRUE

DataReceived(payload) ==
    /\ nEvents < MaxEvents
    /\ ServerSends(gameState, payload)
    /\ LET out == onDataReceived(gameState, isMounted, payload, nEvents)
           speaks == IF isMounted /\ payload.wellFormed
                     THEN Get(payload.value).type = "can_speak" ELSE FALSE
           timeout == NumOr(DataOf(Get(payload.value)).timeout, DefaultSpeakTimeout)
       IN  /\ gameState' = out.state
           /\ uncaught' = (TRUE \in {out.threw, uncaught})
           /\ consoleErrors' = consoleErrors + (IF out.error THEN 1 ELSE 0)
           /\ timers' = IF speaks
                        THEN clearTimeout(timers, speakTimeoutRef)
                                 \cup {[id |-> nextTimerId, left |-> timeout]}
                        ELSE timers
           /\ speakTimeoutRef' = IF speaks THEN nextTimerId ELSE speakTimeoutRef
           /\ nextTimerId' = IF speaks THEN nextTimerId + 1 ELSE nextTimerId
           /\ selectedPlayer' = keepSelection(out.state, selectedPlayer)
    /\ prev' = gameState
    /\ lastEvent' = [kind |-> IF isMounted THEN "data" ELSE "ignored",
                     payload |-> payload]
    /\ nEvents' = nEvents + 1
    /\ UNCHANGED <<isMounted, outbox, selectedTarget>>
    /\ UNCHANGED <<varsJsx, varsHtml, varsEvents, varsApp>>

\* one second passes while no pending timer is due
Tick ==
    /\ timers # {}
    /\ \A t \in timers : t.left > 0
    /\ timers' = {[t EXCEPT !.left = @ - 1] : t \in timers}
    /\ prev' = gameState
    /\ lastEvent' = [kind |-> "tick"]
    /\ UNCHANGED <<gameState, speakTimeoutRef, nextTimerId, isMounted,
                   selectedPlayer, selectedTarget, outbox, uncaught,
                   consoleErrors, nEvents>>
    /\ UNCHANGED <<varsJsx, varsHtml, varsEvents, varsApp>>

SpeakTimeout(t) ==
    /\ t \in timers
    /\ t.left = 0
    /\ timers' = timers \ {t}
    /\ gameState' = speakTimeoutCallback(gameState)
    /\ selectedPlayer' = keepSelection(gameState', selectedPlayer)
    /\ prev' = gameState
    /\ lastEvent' = [kind |-> "timer", id |-> t.id]
    /\ UNCHANGED <<speakTimeoutRef, nextTimerId, isMounted, selectedTarget, outbox,
                   uncaught, consoleErrors, nEvents>>
    /\ UNCHANGED <<varsJsx, varsHtml, varsEvents, varsApp>>

\* a click on an enabled PlayerGrid button of the voting interface
SelectPlayer(id) ==
    /\ isMounted
    /\ gameState.voting.active
    /\ ~hasVoted(gameState)
    /\ id \in selectablePlayers(gameState)
    /\ selectedPlayer' = id
    /\ prev' = gameState
    /\ lastEvent' = [kind |-> "select", target |-> id]
    /\ UNCHANGED <<gameState, speakTimeoutRef, timers, nextTimerId, isMounted,
                   selectedTarget, outbox, uncaught,
                   consoleErrors, nEvents>>
    /\ UNCHANGED <<varsJsx, varsHtml, varsEvents, varsApp>>

\* a click on "Vote to eliminate": handleVoteConfirm, then handleVote
VoteConfirm(publish) ==
    /\ isMounted
    /\ gameState.voting.active
    /\ Truthy(selectedPlayer)
    /\ ~hasVoted(gameState)
    /\ LET out == handleVote(gameState, outbox, selectedPlayer, publish)
       IN  /\ outbox' = out.sent
           /\ gameState' = out.state
           /\ lastEvent' = [kind |-> "vote", target |-> selectedPlayer,
                            publish |-> publish, result |-> out.result]
    /\ prev' = gameState
    /\ UNCHANGED <<speakTimeoutRef, timers, nextTimerId, isMounted, selectedPlayer,
                   selectedTarget, uncaught,
                   consoleErrors, nEvents>>
    /\ UNCHANGED <<varsJsx, varsHtml, varsEvents, varsApp>>

\* a click on an enabled PlayerGrid button of the target selection
SelectTarget(id) ==
    /\ isMounted
    /\ gameState.targetSelection.active
    /\ id \in selectableTargets(gameState)
    /\ selectedTarget' = id
    /\ prev' = gameState
    /\ lastEvent' = [kind |-> "selectTarget", target |-> id]
    /\ UNCHANGED <<gameState, speakTimeoutRef, timers, nextTimerId, isMounted,
                   selectedPlayer, outbox, uncaught, consoleErrors, nEvents>>
    /\ UNCHANGED <<varsJsx, varsHtml, varsEvents, varsApp>>

\* a click on the confirm button of the target selection: handleTargetConfirm,
\* then handleTargetSelection
TargetConfirm(publish) ==
    /\ isMounted
    /\ gameState.targetSelection.active
    /\ Truthy(selectedTarget)
    /\ LET out == handleTargetSelection(gameState, outbox, selectedTarget, publish)
       IN  /\ outbox' = out.sent
           /\ gameState' = out.state
           /\ lastEvent' = [kind |-> "target", target |-> selectedTarget,
                            publish |-> publish, result |-> out.result]
    /\ selectedTarget' = Null
    /\ selectedPlayer' = keepSelection(gameState', selectedPlayer)
    /\ prev' = gameState
    /\ UNCHANGED <<speakTimeoutRef, timers, nextTimerId, isMounted, uncaught,
                   consoleErrors, nEvents>>
    /\ UNCHANGED <<varsJsx, varsHtml, varsEvents, varsApp>>

\* the cleanup of the mount effect
Unmount ==
    /\ isMounted
    /\ isMounted' = FALSE
    /\ timers' = IF speakTimeoutRef # 0
                 THEN clearTimeout(timers, speakTimeoutRef) ELSE timers
    /\ selectedPlayer' = Null
    /\ selectedTarget' = Null
    /\ prev' = gameState
    /\ lastEvent' = [kind |-> "unmount"]
    /\ UNCHANGED <<gameState, speakTimeoutRef, nextTimerId, outbox, uncaught,
                   consoleErrors, nEvents>>
    /\ UNCHANGED <<varsJsx, varsHtml, varsEvents, varsApp>>

Init003 ==
    /\ gameState = InitialGameState
    /\ speakTimeoutRef = 0
    /\ timers = {}
    /\ nextTimerId = 1
    /\ isMounted = TRUE
    /\ selectedPlayer = Null
    /\ selectedTarget = Null
    /\ outbox = <<>>
    /\ uncaught = FALSE
    /\ consoleErrors = 0
    /\ prev = InitialGameState

Next003 ==
    \/ \E payload \in Payloads : DataReceived(payload)
    \/ Tick
    \/ \E t \in timers : SpeakTimeout(t)
    \/ \E id \in Ids : SelectPlayer(id)
    \/ \E publish \in PublishOutcomes : VoteConfirm(publish)
    \/ \E id \in Ids : SelectTarget(id)
    \/ \E publish \in PublishOutcomes : TargetConfirm(publish)
    \/ Unmount

----------------------------------------------------------------------------
(* The first GameRoom of part_003 (lines 20-498): messages are             *)
(* {type: 'game_event', event, data, game_state?},                         *)
(* {type: 'user_action', action, data, timeout?} and                       *)
(* {type: 'announcement', announcement, timestamp?}.                       *)
(* The top-level fields event, action, timeout, timestamp and announcement *)
(* of a message are in its field top.  Its handleGameStateUpdate (76-116)  *)
(* is the one of the second GameRoom.  Times are in seconds.               *)

Ev_phase_change(prevState, data) ==
    LET phase == StrOf(data.phase)
        base == [prevState EXCEPT !.phase = phase,
                                  !.round = NumOr(data.round, prevState.round)]
    IN  CASE phase = "day" ->
                [base EXCEPT !.debate.current_speaker = Null,
                             !.debate.current_turn = 0,
                             !.debate.history = <<>>,
                             !.voting.active = FALSE,
                             !.voting.voted_player = Null,
                             !.voting.votes = EmptyMap,
                             !.interaction.can_speak = FALSE]
          [] phase = "night" -> [base EXCEPT !.interaction.can_speak = FALSE]
          [] phase = "voting" ->
                [base EXCEPT !.voting.active = TRUE,
                             !.voting.voted_player = Null,
                             !.voting.votes = EmptyMap,
                             !.interaction.can_speak = FALSE]
          [] OTHER -> base

Ev_debate_update(prevState, data) ==
    LET newTurn == NumOr(data.turn, prevState.debate.current_turn + 1)
        spoken ==
            IF Truthy(StrOf(data.speaker)) /\ Has(data.dialogue)
            THEN [prevState EXCEPT
                    !.phase = "day",
                    !.debate.current_speaker = Get(data.speaker),
                    !.debate.current_turn = newTurn,
                    !.debate.history =
                        Append(@, [speaker |-> Get(data.speaker),
                                   dialogue |-> Get(data.dialogue), turn |-> data.turn]),
                    !.debate.turns_left = Max(0, prevState.debate.max_turns - newTurn)]
            ELSE prevState
    IN  IF data.speaking_ended = {TRUE}
        THEN [spoken EXCEPT !.interaction.can_speak = FALSE,
                            !.interaction.speaking_prompt = ""]
        ELSE spoken

Ev_voting_update(prevState, data) ==
    LET event == StrOf(data.event)
    IN  CASE event = "voting_started" ->
                [prevState EXCEPT !.voting.active = TRUE, !.voting.votes = EmptyMap,
                                  !.voting.voted_player = Null]
          [] event = "vote_received" ->
                [prevState EXCEPT
                    !.voting.votes = Put(@, StrOf(data.voter), StrOf(data.target))]
          [] event = "voting_ended" ->
                [prevState EXCEPT
                    !.voting.active = FALSE,
                    !.voting.results = IF Has(data.votes)
                                       THEN JsValue(Get(data.votes))
                                       ELSE JsValue(prevState.voting.votes)]
          [] event = "voting_results" ->
                [prevState EXCEPT
                    !.voting.results = IF Has(data.results)
                                       THEN JsValue(Get(data.results))
                                       ELSE JsUndefined]
          [] OTHER -> prevState

Ev_player_update(prevState, data) ==
    IF Truthy(StrOf(data.exiled_player))
    THEN [prevState EXCEPT
            !.players = [i \in 1..Len(@) |->
                            IF Get(data.exiled_player) \in {@[i].id, @[i].name}
                            THEN [@[i] EXCEPT !.isAlive = FALSE]
                            ELSE @[i]]]
    ELSE prevState

handleGameEvent(prevState, message) ==
    LET event == StrOf(message.top.event)
        data == DataOf(message)
        merged == IF Has(message.game_state)
                  THEN handleGameStateUpdate(prevState, Get(message.game_state))
                  ELSE prevState
    IN  CASE event = "phase_change" -> Ev_phase_change(merged, data)
          [] event = "debate_update" -> Ev_debate_update(merged, data)
          [] event = "voting_update" -> Ev_voting_update(merged, data)
          [] event = "player_update" -> Ev_player_update(merged, data)
          [] OTHER -> merged

\* the timer handleUserAction schedules: none unless the message is a can_speak
\* whose top-level timeout is truthy
Ev_speakTimer(message) ==
    IF message.type = "user_action" /\ message.top.action = {"can_speak"}
                                    /\ NumOr(message.top.timeout, 0) # 0
    THEN {Get(message.top.timeout)}
    ELSE {}

handleUserAction(prevState, message) ==
    LET action == StrOf(message.top.action)
        data == DataOf(message)
    IN  CASE action = "can_speak" ->
                [prevState EXCEPT
                    !.interaction.can_speak = TRUE,
                    !.interaction.speaking_prompt =
                        StrOr(data.prompt, "You can speak now!")]
          [] action = "request_vote" ->
                [prevState EXCEPT !.voting.active = TRUE, !.voting.voted_player = Null]
          [] action = "request_target" ->
                [prevState EXCEPT
                    !.targetSelection =
                        [active |-> TRUE, action |-> StrOf(data.action),
                         options |-> IF Has(data.options)
                                     THEN Get(data.options) ELSE Undefined,
                         prompt |-> StrOf(data.prompt), icon |-> StrOf(data.icon)]]
          [] OTHER -> prevState

handleAnnouncement(prevState, message, now) ==
    [prevState EXCEPT
        !.announcements =
            Append(@, [id |-> NumOr(message.top.timestamp, now),
                       timestamp |-> message.top.timestamp,
                       announcement |-> message.top.announcement])]

handleMessage(prevState, message, now) ==
    CASE message.type = "game_event" -> handleGameEvent(prevState, message)
      [] message.type = "user_action" -> handleUserAction(prevState, message)
      [] message.type = "announcement" -> handleAnnouncement(prevState, message, now)
      [] OTHER -> prevState

\* onDataReceived of the first GameRoom (348-356)
Ev_onDataReceived(prevState, payload, now) ==
    LET parsed == JSONParse(payload)
    IN  IF parsed.threw
        THEN [state |-> prevState, error |-> TRUE]
        ELSE [state |-> handleMessage(prevState, Get(parsed.value), now),
              error |-> FALSE]

----------------------------------------------------------------------------
(* Inbound messages the model delivers to the first GameRoom; every        *)
(* game_event and user_action carries a data object.                       *)

GameEvent(event, data) ==
    [Msg("game_event", {}, {}, {data}) EXCEPT !.top.event = {event}]

UserAction(action, timeout, data) ==
    [Msg("user_action", {}, {}, {data}) EXCEPT !.top.action = {action},
                                                !.top.timeout = timeout]

Ev_Messages ==
    {GameEvent("phase_change", [EmptyData EXCEPT !.phase = {ph}, !.round = {2}]) :
        ph \in {"day", "night", "voting"}}
    \cup {GameEvent("debate_update",
              [EmptyData EXCEPT !.speaker = {"B"}, !.dialogue = {"hello"}, !.turn = t]) :
              t \in {{}, {1}, {3}}}
    \cup {GameEvent("debate_update", [EmptyData EXCEPT !.speaking_ended = {TRUE}])}
    \cup {GameEvent("voting_update", [EmptyData EXCEPT !.event = {ev}]) :
              ev \in {"voting_started", "voting_ended"}}
    \cup {GameEvent("voting_update",
              [EmptyData EXCEPT !.event = {"vote_received"}, !.voter = {vt[1]},
                                !.target = {vt[2]}]) :
              vt \in {<<"A", "B">>, <<"B", "C">>}}
    \cup {GameEvent("voting_update",
              [EmptyData EXCEPT !.event = {"voting_results"}, !.results = {SomeVotes}])}
    \cup {GameEvent("player_update", [EmptyData EXCEPT !.exiled_player = {"B"}])}
    \cup {[GameEvent("frobnicate", EmptyData) EXCEPT !.game_state = {gs}] :
              gs \in {RichGameState}}
    \cup {UserAction("can_speak", t, d) :
              t \in {{}, {2}}, d \in {EmptyData, [EmptyData EXCEPT !.prompt = {"Speak"}]}}
    \cup {UserAction("request_vote", {}, EmptyData),
          UserAction("request_target", {},
                     [EmptyData EXCEPT !.action = {"eliminate"}, !.options = {<<"B", "C">>},
                                       !.prompt = {"Choose"}]),
          UserAction("frobnicate", {}, EmptyData)}
    \cup {[Msg("announcement", {}, {}, {}) EXCEPT !.top.announcement = {"news"}],
          Msg("frobnicate", {}, {}, {})}

Ev_Payloads == {Encode(m) : m \in Ev_Messages} \cup {Malformed}

----------------------------------------------------------------------------
(* Actions of the first GameRoom *)

EvDataReceived(payload) ==
    /\ nEvents < MaxEvents
    /\ LET out == Ev_onDataReceived(evGameState, payload, nEvents)
           speaks == IF payload.wellFormed
                     THEN LET message == Get(payload.value)
                          IN  /\ message.type = "user_action"
                              /\ message.top.action = {"can_speak"}
                     ELSE FALSE
           scheduled == IF speaks THEN Ev_speakTimer(Get(payload.value)) ELSE {}
           cleared == IF speaks /\ evSpeakTimeoutRef # 0
                      THEN clearTimeout(evTimers, evSpeakTimeoutRef) ELSE evTimers
       IN  /\ evGameState' = out.state
           /\ evConsoleErrors' = evConsoleErrors + (IF out.error THEN 1 ELSE 0)
           /\ evTimers' = cleared \cup {[id |-> evNextTimerId, left |-> t] : t \in scheduled}
           /\ evSpeakTimeoutRef' = IF scheduled # {} THEN evNextTimerId
                                   ELSE evSpeakTimeoutRef
           /\ evNextTimerId' = evNextTimerId + Cardinality(scheduled)
    /\ lastEvent' = [kind |-> "data", payload |-> payload]
    /\ nEvents' = nEvents + 1
    /\ UNCHANGED <<vars003, varsJsx, varsHtml, varsApp>>

\* one second passes while no pending timer is due
EvTick ==
    /\ evTimers # {}
    /\ \A t \in evTimers : t.left > 0
    /\ evTimers' = {[t EXCEPT !.left = @ - 1] : t \in evTimers}
    /\ lastEvent' = [kind |-> "tick"]
    /\ UNCHANGED <<evGameState, evSpeakTimeoutRef, evNextTimerId, evConsoleErrors,
                   nEvents>>
    /\ UNCHANGED <<vars003, varsJsx, varsHtml, varsApp>>

\* a due timer runs the callback of lines 260-265
EvSpeakTimeout(t) ==
    /\ t \in evTimers
    /\ t.left = 0
    /\ evTimers' = evTimers \ {t}
    /\ evGameState' = speakTimeoutCallback(evGameState)
    /\ lastEvent' = [kind |-> "timer", id |-> t.id]
    /\ UNCHANGED <<evSpeakTimeoutRef, evNextTimerId, evConsoleErrors, nEvents>>
    /\ UNCHANGED <<vars003, varsJsx, varsHtml, varsApp>>

InitEvents ==
    /\ evGameState = InitialGameState
    /\ evSpeakTimeoutRef = 0
    /\ evTimers = {}
    /\ evNextTimerId = 1
    /\ evConsoleErrors = 0

NextEvents ==
    \/ \E payload \in Ev_Payloads : EvDataReceived(payload)
    \/ EvTick
    \/ \E t \in evTimers : EvSpeakTimeout(t)

----------------------------------------------------------------------------
(* GameRoom.jsx: the component state and its handlers                      *)
(* Times are in seconds (the code multiplies by 1000 for setTimeout).      *)

Jsx_CanSpeakDefault == 5       \* timeout ? timeout * 1000 : 5000
Jsx_SpeakTimeDefault == 30     \* data?.speakTime || 30
Jsx_MaxTurnsDefault == 5       \* data.maxTurns || 5
Jsx_FirstRound == 1            \* data.round || 1
Jsx_InitialTurn == 1           \* useState(1)

\* isMounted.current: the cleanup that would clear it is commented out
Jsx_isMounted == TRUE

\* an entry of logs: the template string's fixed text and the values it embeds
Jsx_Log(text, a, b, n) == [text |-> text, a |-> a, b |-> b, n |-> n]

\* prev.voting before any voting message: undefined (no isActive, votes, results)
Jsx_NoVoting == [isActive |-> {}, votes |-> {}, results |-> {}]

Jsx_InitialGameState ==
    [phase |-> "lobby",
     round |-> {},
     players |-> <<>>,
     currentPlayer |-> [id |-> LocalId, name |-> PlayerName, role |-> PlayerRole,
                        isHost |-> FALSE],
     logs |-> <<>>,
     announcements |-> <<>>,
     targetSelection |-> [active |-> FALSE, action |-> Null, options |-> <<>>,
                          prompt |-> ""],
     currentTurn |-> {},
     maxTurns |-> {},
     currentSpeaker |-> {},
     voting |-> Jsx_NoVoting,
     phaseData |-> {}]

\* the player record built for a participant
Jsx_participantPlayer(identity) ==
    [id |-> identity, name |-> {identity}, role |-> {"villager"}, isAlive |-> {TRUE}]

\* the mount effect: players: initialParticipants.map(...)
Jsx_seedPlayers(state, initialParticipants) ==
    [state EXCEPT !.players = [i \in 1..Len(initialParticipants) |->
                                  Jsx_participantPlayer(initialParticipants[i])]]

\* setParticipants(prev => prev.some(...) ? prev : [...prev, participant])
Jsx_addParticipant(list, identity) ==
    IF identity \in Range(list) THEN list ELSE Append(list, identity)

\* prev.filter(p => p.identity !== participant.identity)
Jsx_removeParticipant(list, identity) ==
    SelectSeq(list, LAMBDA p : p # identity)

\* onParticipantConnected: players: [...prev.players, {...}]
Jsx_onParticipantConnected(state, identity) ==
    [state EXCEPT !.players = Append(@, Jsx_participantPlayer(identity))]

\* onParticipantDisconnected: players: prev.players.filter(p => p.id !== identity)
Jsx_onParticipantDisconnected(state, identity) ==
    [state EXCEPT !.players = SelectSeq(@, LAMBDA p : p.id # identity)]

Jsx_updateGameLogs(state, logMessage) == [state EXCEPT !.logs = Append(@, logMessage)]

\* updateGamePhase(phase, additionalData): {...prev, phase, ...additionalData}
Jsx_updateGamePhase(state, phase, phaseData) ==
    [state EXCEPT !.phase = phase, !.phaseData = IF Has(phaseData) THEN phaseData ELSE @]

\* the component while one handler runs: the React states, the timers the
\* handler schedules, and how the handler ended
Jsx_Component(state, speak, voting, voted, turn) ==
    [gameState |-> state, canSpeak |-> speak, isVoting |-> voting,
     votedPlayer |-> voted, currentTurn |-> turn, scheduled |-> {},
     crashed |-> FALSE, errors |-> 0]

\* the catch block of handleGameMessage
Jsx_caught(c) ==
    [c EXCEPT !.gameState =
                  Jsx_updateGameLogs(@, Jsx_Log("Error processing game message", "", "", 0)),
              !.errors = @ + 1]

\* an exception thrown by a state updater or by a render: nothing catches it
Jsx_renderThrows(c) == [c EXCEPT !.crashed = TRUE]

\* GameStatusHeader evaluates phase.charAt(0)
Jsx_renderFails(state) == state.phase = Undefined

\* { ...p, ...data } for the fields a player record has
Jsx_mergeIntoPlayer(p, data) ==
    [p EXCEPT !.isAlive = IF Has(data.isAlive) THEN data.isAlive ELSE @,
              !.role = IF Has(data.role) THEN data.role ELSE @]

\* an exile that flips isAlive instead of clearing it
Jsx_player_exiled_toggles(c, message) ==
    LET data == DataOf(message)
    IN  IF ~Has(message.data) THEN Jsx_caught(c)
        ELSE IF StrOr(data.player, "") = "" THEN c
        ELSE [c EXCEPT !.gameState =
                [@ EXCEPT
                    !.logs = Append(@, Jsx_Log("has been eliminated",
                                               Get(data.player), "", 0)),
                    !.players = [i \in 1..Len(@) |->
                                    IF @[i].id = Get(data.player)
                                    THEN [@[i] EXCEPT !.isAlive =
                                            IF @ = {FALSE} THEN {TRUE} ELSE {FALSE}]
                                    ELSE @[i]]]]

\* case 'player_exiled' of handleGameStateUpdate
Jsx_player_exiled(c, message) ==
    LET data == DataOf(message)
    IN  IF ~Has(message.data) THEN Jsx_caught(c)
        ELSE IF StrOr(data.player, "") = "" THEN c
        ELSE [c EXCEPT !.gameState =
                [@ EXCEPT
                    !.logs = Append(@, Jsx_Log("has been eliminated",
                                               Get(data.player), "", 0)),
                    !.players = [i \in 1..Len(@) |->
                                    IF @[i].id = Get(data.player)
                                    THEN [@[i] EXCEPT !.isAlive = {FALSE}]
                                    ELSE @[i]]]]

Jsx_handleGameStateUpdate(c, message) ==
    LET t == StrOf(message.update_type)
        has == Has(message.data)
        data == DataOf(message)
        s == c.gameState
        round == NumOr(data.round, Jsx_FirstRound)
    IN  CASE t = "game_state" ->
                IF ~has THEN Jsx_renderThrows(c)
                ELSE [c EXCEPT !.gameState =
                        [s EXCEPT
                            !.phase = IF Has(data.phase) THEN Get(data.phase) ELSE @,
                            !.round = IF Has(data.round) THEN data.round ELSE @,
                            !.players = IF Has(data.players) THEN Get(data.players) ELSE @,
                            !.logs = Append(@, Jsx_Log("Game state updated", "", "", 0))]]
          [] t = "day_phase_start" ->
                IF ~has THEN Jsx_renderThrows(c)
                ELSE [c EXCEPT
                        !.gameState =
                            [s EXCEPT
                                !.players = IF Has(data.players) THEN Get(data.players) ELSE @,
                                !.phase = "day",
                                !.currentTurn = {round},
                                !.maxTurns = {NumOr(data.maxTurns, Jsx_MaxTurnsDefault)},
                                !.logs = Append(@, Jsx_Log("Day begins", "", "", round))],
                        !.currentTurn = {round}]
          [] t = "night_phase_start" ->
                IF ~has THEN Jsx_renderThrows(c)
                ELSE [c EXCEPT
                        !.gameState =
                            [s EXCEPT
                                !.players = IF Has(data.players) THEN Get(data.players) ELSE @,
                                !.phase = "night",
                                !.currentTurn = {round},
                                !.logs = Append(@, Jsx_Log("Night falls", "", "", round))],
                        !.currentTurn = {round}]
          [] t = "debate_update" ->
                LET local == data.speaker = {PlayerName}
                    speakTime == NumOr(data.speakTime, Jsx_SpeakTimeDefault)
                IN  [c EXCEPT
                        !.gameState =
                            [s EXCEPT
                                !.currentTurn = data.turn,
                                !.currentSpeaker = data.speaker,
                                !.maxTurns = data.maxTurns,
                                !.logs = IF StrOr(data.dialogue, "") # ""
                                            /\ StrOr(data.speaker, "") # ""
                                         THEN Append(@, Jsx_Log("says", Get(data.speaker),
                                                                Get(data.dialogue), 0))
                                         ELSE @],
                        !.currentTurn = data.turn,
                        !.canSpeak = IF local THEN TRUE ELSE @,
                        !.scheduled = IF local
                                      THEN {[left |-> speakTime, kind |-> "debate_update"]}
                                      ELSE @]
          [] t = "voting_phase" ->
                LET phased == [c EXCEPT !.gameState = Jsx_updateGamePhase(s, "voting", {})]
                IN  IF ~has THEN Jsx_caught(phased)
                    ELSE [phased EXCEPT !.gameState =
                            Jsx_updateGameLogs(@,
                                Jsx_Log("Voting", StrOr(data.message, "Voting phase has begun"),
                                        "", 0))]
          [] t = "voting_started" ->
                [c EXCEPT
                    !.isVoting = TRUE,
                    !.votedPlayer = Null,
                    !.gameState =
                        [s EXCEPT !.phase = "voting",
                                  !.voting = [@ EXCEPT !.isActive = {TRUE},
                                                       !.votes = {EmptyMap}],
                                  !.logs = Append(@, Jsx_Log("Voting has started", "", "", 0))]]
          [] t = "voting_ended" ->
                [c EXCEPT
                    !.isVoting = FALSE,
                    !.gameState =
                        [s EXCEPT !.voting = [@ EXCEPT !.isActive = {FALSE}],
                                  !.logs = Append(@, Jsx_Log("Voting has ended", "", "", 0))]]
          [] t = "vote_received" ->
                IF ~has THEN Jsx_caught(c)
                ELSE LET voter == StrOf(data.voter)
                         target == StrOf(data.target)
                         votes == IF Has(s.voting.votes) THEN Get(s.voting.votes)
                                  ELSE EmptyMap
                     IN  [c EXCEPT
                            !.votedPlayer = IF voter = LocalId THEN target ELSE @,
                            !.gameState =
                                [s EXCEPT
                                    !.voting = [@ EXCEPT !.votes = {Put(votes, voter, target)}],
                                    !.logs = Append(@, Jsx_Log("voted for", voter, target, 0))]]
          [] t = "voting_results" ->
                IF ~has THEN Jsx_caught(c)
                ELSE LET told == IF StrOr(data.message, "") # ""
                                 THEN [c EXCEPT !.gameState =
                                          Jsx_updateGameLogs(@,
                                              Jsx_Log("Tally", Get(data.message), "", 0))]
                                 ELSE c
                     IN  IF ~Has(data.results) THEN told
                         ELSE IF ~Has(Get(data.results).vote_counts)
                              THEN Jsx_caught(told)
                              ELSE [told EXCEPT !.gameState =
                                      Jsx_updateGameLogs(@,
                                          Jsx_Log("Results", "", "",
                                                  Cardinality(DOMAIN
                                                      Get(Get(data.results).vote_counts))))]
          [] t = "player_exiled" -> Jsx_player_exiled(c, message)
          [] t = "player_update" ->
                IF ~has
                THEN IF s.players = <<>> THEN c ELSE Jsx_renderThrows(c)
                ELSE [c EXCEPT !.gameState =
                        [s EXCEPT !.players =
                            [i \in 1..Len(@) |->
                                IF @[i].id = StrOf(data.id)
                                THEN Jsx_mergeIntoPlayer(@[i], data) ELSE @[i]]]]
          [] t = "phase_change" ->
                IF ~has THEN Jsx_caught(c)
                ELSE [c EXCEPT !.gameState =
                        Jsx_updateGameLogs(
                            Jsx_updateGamePhase(s, StrOf(data.phase), {data}),
                            Jsx_Log("Phase changed to", StrOf(data.phase), "", 0))]
          [] OTHER -> c

Jsx_handleDirectMessage(c, message, now) ==
    LET t == message.type
        top == message.top
        s == c.gameState
    IN  CASE t = "request_vote" ->
                [c EXCEPT
                    !.isVoting = TRUE,
                    !.votedPlayer = Null,
                    !.gameState = Jsx_updateGameLogs(@,
                        Jsx_Log("Vote", StrOr(top.prompt, "Please cast your vote"), "", 0))]
          [] t = "can_speak" ->
                [c EXCEPT
                    !.canSpeak = TRUE,
                    !.scheduled = {[left |-> NumOr(top.timeout, Jsx_CanSpeakDefault),
                                    kind |-> "can_speak"]},
                    !.gameState = Jsx_updateGameLogs(@,
                        Jsx_Log("Speak", StrOr(top.prompt, "You can speak now"), "", 0))]
          [] t = "speaking_ended" ->
                [c EXCEPT
                    !.canSpeak = FALSE,
                    !.gameState = Jsx_updateGameLogs(@,
                        Jsx_Log("Speaking time ended", "", "", 0))]
          [] t = "debate_turn" ->
                [c EXCEPT
                    !.canSpeak = TRUE,
                    !.gameState = Jsx_updateGameLogs(@,
                        Jsx_Log("Turn", StrOr(top.prompt, "Your turn to speak"), "", 0))]
          [] t = "request_target_selection" ->
                LET logged == Jsx_updateGameLogs(s,
                                  Jsx_Log("Target", StrOr(top.prompt, "Choose target for"),
                                          IF StrOr(top.prompt, "") = ""
                                          THEN StrOf(top.action) ELSE "", 0))
                IN  [c EXCEPT !.gameState =
                        IF Has(top.options)
                        THEN [logged EXCEPT !.targetSelection =
                                [active |-> TRUE, action |-> StrOf(top.action),
                                 options |-> Get(top.options),
                                 prompt |-> StrOf(top.prompt)]]
                        ELSE logged]
          [] t = "announcement" ->
                IF StrOr(top.text, "") = "" THEN c
                ELSE [c EXCEPT !.gameState =
                        [Jsx_updateGameLogs(s, Jsx_Log("Announcement", Get(top.text), "", 0))
                         EXCEPT !.announcements =
                            Append(@, [id |-> now, message |-> Get(top.text),
                                       timestamp |-> NumOr(top.timestamp, now)])]]
          [] OTHER -> c

\* a dispatcher that ends every prompt by withdrawing the permission to speak
Jsx_handleGameMessage_clearsSpeech(c, message, now) ==
    IF ~Jsx_isMounted THEN c
    ELSE LET handled == IF message.type = "game_state_update"
                        THEN Jsx_handleGameStateUpdate(c, message)
                        ELSE [Jsx_handleDirectMessage(c, message, now)
                                 EXCEPT !.canSpeak = (message.type = "debate_turn")]
         IN  IF ~handled.crashed /\ Jsx_renderFails(handled.gameState)
             THEN Jsx_renderThrows(handled)
             ELSE handled

Jsx_handleGameMessage(c, message, now) ==
    IF ~Jsx_isMounted THEN c
    ELSE LET handled == IF message.type = "game_state_update"
                        THEN Jsx_handleGameStateUpdate(c, message)
                        ELSE Jsx_handleDirectMessage(c, message, now)
         IN  IF ~handled.crashed /\ Jsx_renderFails(handled.gameState)
             THEN Jsx_renderThrows(handled)
             ELSE handled

Jsx_onDataReceived(c, payload, now) ==
    LET parsed == JSONParse(payload)
    IN  IF parsed.threw
        THEN [c EXCEPT !.errors = @ + 1]
        ELSE Jsx_handleGameMessage(c, Get(parsed.value), now)

\* the timer callback: () => setCanSpeak(false); a setter of an unmounted
\* component does nothing
Jsx_timerCallback(speak, crashed) == IF crashed THEN speak ELSE FALSE

----------------------------------------------------------------------------
(* Inbound messages the model delivers to GameRoom.jsx *)

Flat(type, fields) == [Msg(type, {}, {}, {}) EXCEPT !.top = fields]

Jsx_VoteCounts == [v \in {"B"} |-> 2]

Jsx_Messages ==
    {Upd("game_state", d) :
        d \in {{}, {EmptyData},
               {[EmptyData EXCEPT !.players = {AllAlive}, !.phase = {"night"},
                                  !.round = {2}]}}}
    \cup {Upd("day_phase_start", d) :
        d \in {{EmptyData}, {[EmptyData EXCEPT !.round = {2}, !.players = {AllAlive}]}}}
    \cup {Upd("night_phase_start", {[EmptyData EXCEPT !.round = {2}]})}
    \cup {Upd("debate_update", d) :
        d \in {{},
               {[EmptyData EXCEPT !.speaker = {"B"}, !.dialogue = {"hello"}, !.turn = {3}]},
               {[EmptyData EXCEPT !.speaker = {PlayerName}, !.dialogue = {"hello"},
                                  !.turn = {1}, !.speakTime = {2}]}}}
    \cup {Upd("voting_phase", d) : d \in {{}, {EmptyData}}}
    \cup {Upd("voting_started", {}), Upd("voting_ended", {})}
    \cup {Upd("vote_received", {[EmptyData EXCEPT !.voter = {vt[1]}, !.target = {vt[2]}]}) :
              vt \in {<<"A", "B">>, <<"B", "C">>}}
    \cup {Upd("voting_results",
              {[EmptyData EXCEPT !.message = {"tally"},
                                 !.results = {[vote_counts |-> c]}]}) :
              c \in {{}, {Jsx_VoteCounts}}}
    \cup {Upd("player_exiled", {[EmptyData EXCEPT !.player = {"B"}]})}
    \cup {Upd("player_update", d) :
        d \in {{}, {[EmptyData EXCEPT !.id = {"B"}, !.isAlive = {TRUE}, !.role = {"Seer"}]}}}
    \cup {Upd("phase_change", d) : d \in {{EmptyData}, {[EmptyData EXCEPT !.phase = {"night"}]}}}
    \cup {Upd("frobnicate", {}), Flat("frobnicate", EmptyData)}
    \cup {Flat("request_vote", EmptyData), Flat("speaking_ended", EmptyData),
          Flat("debate_turn", EmptyData)}
    \cup {Flat("can_speak", [EmptyData EXCEPT !.timeout = t]) : t \in {{}, {2}}}
    \cup {Flat("request_target_selection", f) :
        f \in {EmptyData,
               [EmptyData EXCEPT !.action = {"eliminate"}, !.options = {<<"B", "C">>},
                                 !.prompt = {"Choose"}]}}
    \cup {Flat("announcement", [EmptyData EXCEPT !.text = {"news"}])}

Jsx_Payloads == {Encode(m) : m \in Jsx_Messages} \cup {Malformed}

\* identities of the remote participants
Jsx_RemoteIds == {"B", "C"}

\* room.remoteParticipants when the component mounts
Jsx_InitialParticipants == {<<>>, <<"B">>}

----------------------------------------------------------------------------
(* Actions of GameRoom.jsx *)

JsxDataReceived(payload) ==
    /\ nEvents < MaxEvents
    /\ ~jsxCrashed
    /\ ~jsxUnmounted
    /\ LET c == Jsx_onDataReceived(
                    Jsx_Component(jsxGameState, canSpeak, isVoting, votedPlayer, currentTurn),
                    payload, nEvents)
       IN  /\ jsxGameState' = IF c.crashed THEN jsxGameState ELSE c.gameState
           /\ canSpeak' = c.canSpeak
           /\ isVoting' = c.isVoting
           /\ votedPlayer' = c.votedPlayer
           /\ currentTurn' = c.currentTurn
           /\ jsxTimers' = jsxTimers \cup
                  {[id |-> jsxNextTimerId, left |-> t.left, kind |-> t.kind] :
                      t \in c.scheduled}
           /\ jsxNextTimerId' = jsxNextTimerId + Cardinality(c.scheduled)
           /\ jsxCrashed' = c.crashed
           /\ jsxConsoleErrors' = jsxConsoleErrors + c.errors
    /\ lastEvent' = [kind |-> "data", payload |-> payload]
    /\ nEvents' = nEvents + 1
    /\ UNCHANGED <<participants, remoteParticipants, jsxUnmounted>>
    /\ UNCHANGED <<vars003, varsHtml, varsEvents, varsApp>>

\* a participant who is not in the room joins it
JsxParticipantConnected(identity) ==
    /\ nEvents < MaxEvents
    /\ ~jsxCrashed
    /\ ~jsxUnmounted
    /\ identity \notin remoteParticipants
    /\ remoteParticipants' = remoteParticipants \cup {identity}
    /\ participants' = Jsx_addParticipant(participants, identity)
    /\ jsxGameState' = Jsx_onParticipantConnected(jsxGameState, identity)
    /\ lastEvent' = [kind |-> "participantConnected", identity |-> identity]
    /\ nEvents' = nEvents + 1
    /\ UNCHANGED <<canSpeak, isVoting, votedPlayer, currentTurn, jsxTimers,
                   jsxNextTimerId, jsxCrashed, jsxUnmounted, jsxConsoleErrors>>
    /\ UNCHANGED <<vars003, varsHtml, varsEvents, varsApp>>

\* a participant who is in the room leaves it
JsxParticipantDisconnected(identity) ==
    /\ nEvents < MaxEvents
    /\ ~jsxCrashed
    /\ ~jsxUnmounted
    /\ identity \in remoteParticipants
    /\ remoteParticipants' = remoteParticipants \ {identity}
    /\ participants' = Jsx_removeParticipant(participants, identity)
    /\ jsxGameState' = Jsx_onParticipantDisconnected(jsxGameState, identity)
    /\ lastEvent' = [kind |-> "participantDisconnected", identity |-> identity]
    /\ nEvents' = nEvents + 1
    /\ UNCHANGED <<canSpeak, isVoting, votedPlayer, currentTurn, jsxTimers,
                   jsxNextTimerId, jsxCrashed, jsxUnmounted, jsxConsoleErrors>>
    /\ UNCHANGED <<vars003, varsHtml, varsEvents, varsApp>>

\* one second passes while no pending timer is due
JsxTick ==
    /\ jsxTimers # {}
    /\ \A t \in jsxTimers : t.left > 0
    /\ jsxTimers' = {[t EXCEPT !.left = @ - 1] : t \in jsxTimers}
    /\ lastEvent' = [kind |-> "tick"]
    /\ UNCHANGED <<jsxGameState, canSpeak, isVoting, votedPlayer, currentTurn,
                   participants, remoteParticipants, jsxNextTimerId, jsxCrashed,
                   jsxUnmounted, jsxConsoleErrors, nEvents>>
    /\ UNCHANGED <<vars003, varsHtml, varsEvents, varsApp>>

\* a due timer runs its callback
JsxTimeout(t) ==
    /\ t \in jsxTimers
    /\ t.left = 0
    /\ jsxTimers' = jsxTimers \ {t}
    /\ canSpeak' = Jsx_timerCallback(canSpeak, TRUE \in {jsxCrashed, jsxUnmounted})
    /\ lastEvent' = [kind |-> "timer", id |-> t.id, timer |-> t.kind]
    /\ UNCHANGED <<jsxGameState, isVoting, votedPlayer, currentTurn, participants,
                   remoteParticipants, jsxNextTimerId, jsxCrashed, jsxUnmounted,
                   jsxConsoleErrors, nEvents>>
    /\ UNCHANGED <<vars003, varsHtml, varsEvents, varsApp>>

\* the parent stops rendering GameRoom (Leave Room, or room became null after
\* a disconnect): the only cleanup is the room effect's, which removes the
\* room listeners; no clearTimeout exists in the component
Jsx_cleanup(pending) == pending

JsxUnmount ==
    /\ ~jsxCrashed
    /\ ~jsxUnmounted
    /\ jsxUnmounted' = TRUE
    /\ jsxTimers' = Jsx_cleanup(jsxTimers)
    /\ lastEvent' = [kind |-> "unmount"]
    /\ UNCHANGED <<jsxGameState, canSpeak, isVoting, votedPlayer, currentTurn,
                   participants, remoteParticipants, jsxNextTimerId, jsxCrashed,
                   jsxConsoleErrors, nEvents>>
    /\ UNCHANGED <<vars003, varsHtml, varsEvents, varsApp>>

\* the component mounted in a room that holds initialParticipants
InitGameRoomJsx(initialParticipants) ==
    /\ jsxGameState = Jsx_seedPlayers(Jsx_InitialGameState, initialParticipants)
    /\ canSpeak = FALSE
    /\ isVoting = FALSE
    /\ votedPlayer = Null
    /\ currentTurn = {Jsx_InitialTurn}
    /\ participants = initialParticipants
    /\ remoteParticipants = Range(initialParticipants)
    /\ jsxTimers = {}
    /\ jsxNextTimerId = 1
    /\ jsxCrashed = FALSE
    /\ jsxUnmounted = FALSE
    /\ jsxConsoleErrors = 0

NextGameRoomJsx ==
    \/ \E payload \in Jsx_Payloads : JsxDataReceived(payload)
    \/ \E identity \in Jsx_RemoteIds : JsxParticipantConnected(identity)
    \/ \E identity \in Jsx_RemoteIds : JsxParticipantDisconnected(identity)
    \/ JsxTick
    \/ \E t \in jsxTimers : JsxTimeout(t)
    \/ JsxUnmount

----------------------------------------------------------------------------
(* The single-page client of part_000: the script's gameState and the DOM  *)
(* A string that the script splits is the sequence of its characters.      *)
(* Times are in seconds.                                                   *)

Html_SpeakIndicatorDelay == 5      \* setTimeout(..., 5000)
Html_AnnouncementDelay == 10       \* setTimeout(..., 10000)
Html_InitialRound == 0             \* gameState.currentRound

\* the separator of remaining_players.split(', ')
Html_Separator == <<",", " ">>

RECURSIVE Html_splitFrom(_, _, _)
\* s.split(sep), where piece is the part of the current piece already read
Html_splitFrom(s, sep, piece) ==
    IF s = <<>>
    THEN <<piece>>
    ELSE IF Len(s) >= Len(sep) /\ SubSeq(s, 1, Len(sep)) = sep
         THEN <<piece>> \o Html_splitFrom(SubSeq(s, Len(sep) + 1, Len(s)), sep, <<>>)
         ELSE Html_splitFrom(Tail(s), sep, Append(piece, Head(s)))

Html_split(s, sep) == Html_splitFrom(s, sep, <<>>)

\* the name typed into the playerName input
Html_playerName == <<"A">>

\* the text a number gets when it is assigned to textContent
Html_text(n) == ToString(n)

\* the action area before any action was requested
Html_Waiting ==
    [kind |-> "waiting", prompt |-> "", action |-> "", options |-> <<>>,
     target |-> "", speaking |-> FALSE]

\* playersList.innerHTML: one <li> per player, the local one marked (You)
Html_playersList(players, playerName) ==
    [i \in 1..Len(players) |-> [name |-> players[i], you |-> players[i] = playerName]]

Html_Initial ==
    [playerName |-> Html_playerName,
     currentRound |-> Html_InitialRound,
     currentPhase |-> "setup",
     players |-> <<>>,
     roundText |-> "0",
     phaseText |-> "Setup",
     phaseIndicator |-> "Waiting for game to start...",
     playersList |-> <<>>,
     debateMessages |-> <<>>,
     actionContent |-> Html_Waiting,
     announcements |-> <<>>]

\* a handler's outcome: the page, the timers it scheduled, whether it threw
Html_Outcome(page) == [page |-> page, scheduled |-> {}, threw |-> FALSE]

Html_updatePhase(page, phase) ==
    [page EXCEPT !.currentPhase = phase, !.phaseText = phase, !.phaseIndicator = phase]

Html_updatePlayersList(page, players) ==
    [page EXCEPT !.players = players,
                 !.playersList = Html_playersList(players, page.playerName)]

\* appends the announcement node id and schedules its removal
Html_showAnnouncement(o, text, id) ==
    [o EXCEPT !.page.announcements = Append(@, [id |-> id, text |-> text]),
              !.scheduled = @ \cup {[left |-> Html_AnnouncementDelay,
                                     kind |-> "announcement", announcement |-> id]}]

Html_addDebateMessage(page, speaker, dialogue) ==
    [page EXCEPT !.debateMessages = Append(@, [speaker |-> speaker, dialogue |-> dialogue])]

Html_showVoteOptions(o, options, prompt) ==
    IF ~Has(options) THEN [o EXCEPT !.threw = TRUE]
    ELSE [o EXCEPT !.page.actionContent =
            [Html_Waiting EXCEPT !.kind = "vote", !.prompt = StrOf(prompt),
                                 !.options = Get(options)]]

Html_showSpeakPrompt(o, prompt) ==
    [o EXCEPT !.page.actionContent =
                  [Html_Waiting EXCEPT !.kind = "speak", !.prompt = StrOf(prompt),
                                       !.speaking = TRUE],
              !.scheduled = @ \cup {[left |-> Html_SpeakIndicatorDelay,
                                     kind |-> "speakIndicator", announcement |-> 0]}]

Html_showDebateTurn(o, prompt) ==
    [o EXCEPT !.page.actionContent =
            [Html_Waiting EXCEPT !.kind = "turn", !.prompt = StrOf(prompt)]]

Html_showTargetSelection(o, action, options, prompt) ==
    IF ~Has(options) THEN [o EXCEPT !.threw = TRUE]
    ELSE [o EXCEPT !.page.actionContent =
            [Html_Waiting EXCEPT !.kind = "target", !.prompt = StrOf(prompt),
                                 !.action = StrOf(action), !.options = Get(options)]]

\* the update_type branch of updateGameState
Html_applyUpdateType(o, message, id) ==
    LET t == StrOf(message.update_type)
        top == message.top
    IN  CASE t = "day_phase_start" ->
                [o EXCEPT !.page =
                    Html_updatePlayersList(
                        [Html_updatePhase(@, "Day Phase - Debate") EXCEPT
                            !.roundText = Html_text(NumOr(top.round, o.page.currentRound))],
                        IF Has(top.players) THEN Get(top.players) ELSE <<>>)]
          [] t = "debate_update" ->
                [o EXCEPT !.page =
                    Html_addDebateMessage(@, StrOf(top.speaker), StrOf(top.dialogue))]
          [] t = "voting_phase" ->
                Html_showAnnouncement(
                    [o EXCEPT !.page = Html_updatePhase(@, "Day Phase - Voting")],
                    StrOr(top.message, ""), id)
          [] OTHER -> o

\* the game_state branch of updateGameState
Html_applyGameState(o, message) ==
    IF ~Has(message.game_state) THEN o
    ELSE LET game_state == Get(message.game_state)
             rounded == [o.page EXCEPT
                            !.roundText =
                                Html_text(NumOr(game_state.round, o.page.currentRound))]
         IN  [o EXCEPT !.page =
                IF Has(game_state.remaining_players)
                   /\ Get(game_state.remaining_players) # <<>>
                THEN Html_updatePlayersList(
                         rounded,
                         Html_split(Get(game_state.remaining_players), Html_Separator))
                ELSE rounded]

Html_updateGameState(o, message, id) ==
    Html_applyGameState(Html_applyUpdateType(o, message, id), message)

Html_handleDataMessage(o, message, id) ==
    LET t == message.type
        top == message.top
    IN  CASE t = "request_vote" -> Html_showVoteOptions(o, top.options, top.prompt)
          [] t = "can_speak" -> Html_showSpeakPrompt(o, top.prompt)
          [] t = "debate_turn" -> Html_showDebateTurn(o, top.prompt)
          [] t = "request_target_selection" ->
                Html_showTargetSelection(o, top.action, top.options, top.prompt)
          [] t = "game_state_update" -> Html_updateGameState(o, message, id)
          [] t = "announcement" -> Html_showAnnouncement(o, StrOr(top.text, ""), id)
          [] OTHER -> o

\* room.on('dataReceived'): parse and dispatch inside try/catch
Html_onDataReceived(page, payload, id) ==
    LET parsed == JSONParse(payload)
    IN  IF parsed.threw
        THEN [Html_Outcome(page) EXCEPT !.threw = TRUE]
        ELSE Html_handleDataMessage(Html_Outcome(page), Get(parsed.value), id)

\* the callback of a due timer
Html_timerCallback(page, t) ==
    IF t.kind = "announcement"
    THEN [page EXCEPT !.announcements = SelectSeq(@, LAMBDA a : a.id # t.announcement)]
    ELSE [page EXCEPT !.actionContent.speaking = FALSE]

\* vote(target) and selectTarget(target)
Html_vote(page, target) ==
    [page EXCEPT !.actionContent = [Html_Waiting EXCEPT !.kind = "voted", !.target = target]]

Html_selectTarget(page, target) ==
    [page EXCEPT !.actionContent =
        [Html_Waiting EXCEPT !.kind = "selected", !.target = target]]

Html_sendDataMessage(sent, message) == Append(sent, message)

----------------------------------------------------------------------------
(* Inbound messages the model delivers to part_000 *)

Html_Names == <<(<<"A">>), (<<"B">>), (<<"C">>)>>

\* the text "A, C"
Html_Remaining == <<"A", ",", " ", "C">>

Html_GameStates ==
    {EmptyGameState,
     [EmptyGameState EXCEPT !.round = {3}, !.remaining_players = {Html_Remaining}]}

Html_DayPhaseStart(round) ==
    [Upd("day_phase_start", {}) EXCEPT !.top.round = round, !.top.players = {Html_Names}]

Html_Messages ==
    {Flat("request_vote", f) :
        f \in {EmptyData,
               [EmptyData EXCEPT !.options = {<<"B", "C">>}, !.prompt = {"Vote"}]}}
    \cup {Flat("can_speak", [EmptyData EXCEPT !.prompt = {"Speak"}]),
          Flat("debate_turn", EmptyData),
          Flat("request_target_selection",
               [EmptyData EXCEPT !.action = {"eliminate"}, !.options = {<<"B", "C">>},
                                 !.prompt = {"Choose"}]),
          Flat("announcement", [EmptyData EXCEPT !.text = {"news"}]),
          Flat("frobnicate", EmptyData)}
    \cup {Upd("day_phase_start", {}), Html_DayPhaseStart({2})}
    \cup {[Upd("debate_update", {}) EXCEPT !.top.speaker = {"B"},
                                           !.top.dialogue = {"hello"}],
          [Upd("voting_phase", {}) EXCEPT !.top.message = {"vote now"}]}
    \cup {Msg("game_state_update", {}, {gs}, {}) : gs \in Html_GameStates}
    \cup {[Html_DayPhaseStart({2}) EXCEPT !.game_state = {gs}] : gs \in Html_GameStates}

Html_Payloads == {Encode(m) : m \in Html_Messages} \cup {Malformed}

----------------------------------------------------------------------------
(* Actions of part_000 *)

HtmlDataReceived(payload) ==
    /\ nEvents < MaxEvents
    /\ LET o == Html_onDataReceived(html, payload, htmlNextId)
       IN  /\ html' = o.page
           /\ htmlTimers' = htmlTimers \cup
                  {[id |-> htmlNextId, left |-> t.left, kind |-> t.kind,
                    announcement |-> t.announcement] : t \in o.scheduled}
           /\ htmlNextId' = htmlNextId + Cardinality(o.scheduled)
           /\ htmlConsoleErrors' = htmlConsoleErrors + (IF o.threw THEN 1 ELSE 0)
    /\ lastEvent' = [kind |-> "data", payload |-> payload]
    /\ nEvents' = nEvents + 1
    /\ UNCHANGED htmlOutbox
    /\ UNCHANGED <<vars003, varsJsx, varsEvents, varsApp>>

\* one second passes while no pending timer is due
HtmlTick ==
    /\ htmlTimers # {}
    /\ \A t \in htmlTimers : t.left > 0
    /\ htmlTimers' = {[t EXCEPT !.left = @ - 1] : t \in htmlTimers}
    /\ lastEvent' = [kind |-> "tick"]
    /\ UNCHANGED <<html, htmlNextId, htmlOutbox, htmlConsoleErrors, nEvents>>
    /\ UNCHANGED <<vars003, varsJsx, varsEvents, varsApp>>

\* a due timer runs its callback
HtmlTimeout(t) ==
    /\ t \in htmlTimers
    /\ t.left = 0
    /\ htmlTimers' = htmlTimers \ {t}
    /\ html' = Html_timerCallback(html, t)
    /\ lastEvent' = [kind |-> "timer", id |-> t.id, timer |-> t.kind]
    /\ UNCHANGED <<htmlNextId, htmlOutbox, htmlConsoleErrors, nEvents>>
    /\ UNCHANGED <<vars003, varsJsx, varsEvents, varsApp>>

\* a click on a vote button
HtmlVote(target) ==
    /\ html.actionContent.kind = "vote"
    /\ target \in Range(html.actionContent.options)
    /\ htmlOutbox' = Html_sendDataMessage(htmlOutbox, [type |-> "vote", target |-> target])
    /\ html' = Html_vote(html, target)
    /\ lastEvent' = [kind |-> "vote", target |-> target]
    /\ UNCHANGED <<htmlTimers, htmlNextId, htmlConsoleErrors, nEvents>>
    /\ UNCHANGED <<vars003, varsJsx, varsEvents, varsApp>>

\* a click on a target button
HtmlSelectTarget(target) ==
    /\ html.actionContent.kind = "target"
    /\ target \in Range(html.actionContent.options)
    /\ htmlOutbox' = Html_sendDataMessage(htmlOutbox,
                                          [type |-> "target_selection", target |-> target])
    /\ html' = Html_selectTarget(html, target)
    /\ lastEvent' = [kind |-> "target_selection", target |-> target]
    /\ UNCHANGED <<htmlTimers, htmlNextId, htmlConsoleErrors, nEvents>>
    /\ UNCHANGED <<vars003, varsJsx, varsEvents, varsApp>>

InitHtml ==
    /\ html = Html_Initial
    /\ htmlTimers = {}
    /\ htmlNextId = 1
    /\ htmlOutbox = <<>>
    /\ htmlConsoleErrors = 0

NextHtml ==
    \/ \E payload \in Html_Payloads : HtmlDataReceived(payload)
    \/ HtmlTick
    \/ \E t \in htmlTimers : HtmlTimeout(t)
    \/ \E target \in Ids : HtmlVote(target)
    \/ \E target \in Ids : HtmlSelectTarget(target)

----------------------------------------------------------------------------
(* The App of src/frontend/src/App.jsx with the useLiveKit hook of         *)
(* src/unnamed/part_002 and the REST client of src/unnamed/part_001.       *)
(* The React state of the App and of the hook is the record app; closure   *)
(* holds the values that the handlers of the last committed render         *)
(* captured.  A network response, an interval tick and a room event run in *)
(* a task of their own, after React has rendered: they start from          *)
(* closure = app and end rendered.  A handler call may follow another      *)
(* handler call in the same task, before React renders.  An async function *)
(* suspended at an await is a record of calls.  The backend and the        *)
(* LiveKit server are the environment: they resolve or reject each         *)
(* request.  The hook's participants, audioTracks and isMuted are left     *)
(* out: no modelled handler reads them.                                    *)

NoRoom == 0     \* useState(null) of room; a Room object is its number

\* the response of POST /create-room for the local player's room
CreatedRoom == [room_id |-> "R1", room_name |-> "A's Game", creator |-> PlayerName]

\* a room that another player created
OtherRoom == [room_id |-> "R2", room_name |-> "Village", creator |-> "B"]

\* the response of POST /join-room: connectionData
ConnectionData(targetRoomId) ==
    IF targetRoomId = CreatedRoom.room_id THEN CreatedRoom ELSE OtherRoom

\* what the player typed into the Room ID field
RoomIdInputs == {OtherRoom.room_id}

\* err.message of a rejected request
ErrorMessages == {"Failed to fetch"}

\* the responses of GET /room-status/{id}
RoomStatuses ==
    {[players |-> [p \in {"A", "B"} |-> [ready |-> p \in readyPlayers]],
      all_ready |-> readyPlayers = {"A", "B"}] : readyPlayers \in {{"B"}, {"A", "B"}}}

\* the useState initial values of App (8-15) and of useLiveKit (6-16)
InitialApp ==
    [room |-> NoRoom, roomId |-> "", roomName |-> "", isCreator |-> FALSE,
     isConnecting |-> FALSE, liveKitError |-> Null, roomPlayers |-> EmptyMap,
     allReady |-> FALSE,
     gameStarted |-> FALSE, status |-> "", error |-> "", currentView |-> "home",
     isReady |-> FALSE]

\* the view that App renders from these values
shownView(c) ==
    IF c.currentView = "game" /\ c.gameStarted /\ c.room # NoRoom THEN "game"
    ELSE IF c.currentView = "waiting" /\ c.room # NoRoom THEN "waiting"
    ELSE "home"

\* an async function suspended at the await named at
Call(id, op, at, targetRoomId, value, newRoom) ==
    [id |-> id, op |-> op, at |-> at, roomId |-> targetRoomId, value |-> value,
     newRoom |-> newRoom]

\* createNewRoom up to its first await; playerName is PlayerName
createNewRoom(s, c, id) ==
    IF c.isConnecting
    THEN [app |-> s, started |-> {}]
    ELSE [app |-> [s EXCEPT !.isConnecting = TRUE, !.liveKitError = Null],
          started |-> {Call(id, "createNewRoom", "createRoom", "", FALSE, NoRoom)}]

\* joinExistingRoom up to its first await, which is connectToRoom's joinRoom
joinExistingRoom(s, c, id, targetRoomId) ==
    IF c.isConnecting
    THEN [app |-> s, started |-> {}]
    ELSE [app |-> [s EXCEPT !.isConnecting = TRUE, !.liveKitError = Null],
          started |-> {Call(id, "joinExistingRoom", "joinRoom", targetRoomId, FALSE,
                            NoRoom)}]

\* handleCreateRoom up to the await; when createNewRoom returned at its guard
\* the await resumes at once with undefined
handleCreateRoom(s, c, id) ==
    LET out == createNewRoom([s EXCEPT !.error = "", !.status = "Creating room..."], c, id)
    IN  IF out.started = {}
        THEN [out EXCEPT !.app.currentView = "waiting",
                         !.app.status = "Room created! Share the Room ID with other players."]
        ELSE out

handleJoinRoom(s, c, id, roomIdInput) ==
    LET out == joinExistingRoom([s EXCEPT !.error = "", !.status = "Joining room..."],
                                c, id, roomIdInput)
    IN  IF out.started = {}
        THEN [out EXCEPT !.app.currentView = "waiting",
                         !.app.status = "Joined room successfully!"]
        ELSE out

\* createRoom resolved: createNewRoom goes on to connectToRoom's joinRoom
createRoomResolved(s, call) ==
    [app |-> [s EXCEPT !.roomId = CreatedRoom.room_id,
                       !.roomName = CreatedRoom.room_name,
                       !.isCreator = TRUE],
     call |-> [call EXCEPT !.at = "joinRoom", !.roomId = CreatedRoom.room_id]]

\* joinRoom resolved: connectToRoom constructs the Room and awaits its connect
\* (connect and setMicrophoneEnabled are one await: nothing is set in between)
joinRoomResolved(s, call, newRoom) ==
    LET connectionData == ConnectionData(call.roomId)
    IN  [app |-> [s EXCEPT !.roomId = connectionData.room_id,
                           !.roomName = connectionData.room_name,
                           !.isCreator = (connectionData.creator = PlayerName)],
         call |-> [call EXCEPT !.at = "connect", !.newRoom = newRoom]]

\* the Room connected: connectToRoom returns, the finally block runs and the
\* App's handler resumes after its await
connectResolved(s, call) ==
    [s EXCEPT !.room = call.newRoom,
              !.isConnecting = FALSE,
              !.currentView = "waiting",
              !.status = IF call.op = "createNewRoom"
                         THEN "Room created! Share the Room ID with other players."
                         ELSE "Joined room successfully!"]

\* an attemptRejected whose hook has no finally block
attemptRejected_noFinally(s, call, message) ==
    [s EXCEPT !.liveKitError = StrOr({message}, "Failed to connect"),
              !.error = "Failed: " \o message,
              !.status = ""]

\* an await of createNewRoom / joinExistingRoom rejected with err.message:
\* connectToRoom rethrows, the hook's catch and finally run, the App's catch runs
attemptRejected(s, call, message) ==
    IF call.op = "createNewRoom"
    THEN [s EXCEPT !.liveKitError = StrOr({message}, "Failed to create room"),
                   !.isConnecting = FALSE,
                   !.error = "Failed to create room: " \o message,
                   !.status = ""]
    ELSE [s EXCEPT !.liveKitError = StrOr({message}, "Failed to join room"),
                   !.isConnecting = FALSE,
                   !.error = "Failed to join room: " \o message,
                   !.status = ""]

\* setPlayerReady up to its first await
setPlayerReady(c, id, value) ==
    IF c.roomId = ""
    THEN {}
    ELSE {Call(id, "handleToggleReady", "setReady", c.roomId, value, NoRoom)}

\* handleToggleReady up to the await; when setPlayerReady returned at its guard
\* the await resumes at once and setIsReady runs
handleToggleReady(s, c, id) ==
    LET newReadyState == ~c.isReady
        started == setPlayerReady(c, id, newReadyState)
    IN  IF started = {}
        THEN [app |-> [s EXCEPT !.isReady = newReadyState], started |-> {}]
        ELSE [app |-> s, started |-> started]

\* setReady rejected: setPlayerReady rethrows and the App's catch runs
setReadyRejected(s, message) ==
    [s EXCEPT !.error = "Failed to set ready status: " \o message]

\* updateRoomStatus after its getRoomStatus resolved with roomStatus, or
\* rejected ({}): the rejection is caught and logged
updateRoomStatus(s, roomStatus) ==
    IF roomStatus = {}
    THEN s
    ELSE [s EXCEPT !.roomPlayers = Get(roomStatus).players,
                   !.allReady = Get(roomStatus).all_ready]

\* handleToggleReady after await setPlayerReady(newReadyState) returned
toggleResumed(s, call, roomStatus) ==
    [updateRoomStatus(s, roomStatus) EXCEPT !.isReady = call.value]

\* startGame up to its await
startGame(c, id) ==
    IF c.roomId = "" \/ ~c.isCreator
    THEN {}
    ELSE {Call(id, "handleStartGame", "startGameSession", c.roomId, FALSE, NoRoom)}

\* handleStartGame after await startGame() returned
startResumed(s) ==
    [s EXCEPT !.gameStarted = TRUE, !.currentView = "game", !.status = "Game started!"]

\* a handleStartGame without its isCreator / allReady guard
handleStartGame_unguarded(s, c, id) ==
    LET started == {[call EXCEPT !.value = c.isCreator /\ c.allReady] :
                        call \in startGame(c, id)}
        s1 == [s EXCEPT !.status = "Starting game..."]
    IN  IF started = {}
        THEN [app |-> startResumed(s1), started |-> {}, resumed |-> TRUE]
        ELSE [app |-> s1, started |-> started, resumed |-> FALSE]

\* handleStartGame up to the await; the suspended call keeps whether the
\* handler ran with isCreator and allReady; when startGame returned at its
\* guard the await resumes at once (resumed)
handleStartGame(s, c, id) ==
    IF ~c.isCreator \/ ~c.allReady
    THEN [app |-> s, started |-> {}, resumed |-> FALSE]
    ELSE LET started == {[call EXCEPT !.value = c.isCreator /\ c.allReady] :
                             call \in startGame(c, id)}
             s1 == [s EXCEPT !.status = "Starting game..."]
         IN  IF started = {}
             THEN [app |-> startResumed(s1), started |-> {}, resumed |-> TRUE]
             ELSE [app |-> s1, started |-> started, resumed |-> FALSE]

\* startGameSession rejected: startGame rethrows and the App's catch runs
startRejected(s, message) ==
    [s EXCEPT !.error = "Failed to start game: " \o message, !.status = ""]

\* disconnect up to its await
disconnect(c, id) ==
    IF c.room = NoRoom
    THEN {}
    ELSE {Call(id, "disconnect", "room.disconnect", c.roomId, FALSE, c.room)}

\* the finally block of disconnect
disconnectFinally(s) ==
    [s EXCEPT !.room = NoRoom, !.roomId = "", !.roomName = "", !.isCreator = FALSE,
              !.roomPlayers = EmptyMap, !.allReady = FALSE]

\* handleBackToHome: disconnect() is not awaited
handleBackToHome(s, c, id) ==
    [app |-> [s EXCEPT !.currentView = "home", !.gameStarted = FALSE,
                       !.isReady = FALSE, !.status = "", !.error = ""],
     started |-> disconnect(c, id)]

\* the 'disconnected' event of the Room
handleDisconnected(s) == [s EXCEPT !.room = NoRoom]

----------------------------------------------------------------------------
(* Actions of the App *)

\* React has rendered: the handlers see the state, the polling effect has run,
\* the task of the last handler calls is over
Rendered == closure = app /\ taskCalls = 0

\* a task that was not started by a handler call ends rendered
Settle(s) ==
    /\ app' = s
    /\ closure' = s
    /\ interval' = s.roomId
    /\ taskCalls' = 0

\* a handler was called: its state updates wait for the next render
Called(out) ==
    /\ nCalls < MaxCalls
    /\ taskCalls < MaxCallsPerTask
    /\ app' = out.app
    /\ calls' = calls \cup out.started
    /\ nCalls' = nCalls + 1
    /\ taskCalls' = taskCalls + 1
    /\ UNCHANGED <<closure, interval, nRooms, srvAccepted, srvStarted>>
    /\ UNCHANGED <<vars003, varsJsx, varsHtml, varsEvents, nEvents>>

\* React renders; the polling effect (255-260) runs for the rendered roomId
Render ==
    /\ ~Rendered
    /\ closure' = app
    /\ interval' = app.roomId
    /\ taskCalls' = 0
    /\ UNCHANGED <<app, calls, nCalls, nRooms, srvAccepted, srvStarted, startOk>>
    /\ UNCHANGED <<vars003, varsJsx, varsHtml, varsEvents, lastEvent, nEvents>>

\* a submit event of the create form of the home view
SubmitCreate ==
    /\ shownView(closure) = "home"
    /\ LET out == handleCreateRoom(app, closure, nCalls + 1)
       IN  /\ Called(out)
           /\ lastEvent' = [kind |-> "handleCreateRoom", sent |-> out.started # {}]
    /\ UNCHANGED startOk

\* a submit event of the join form of the home view
SubmitJoin(roomIdInput) ==
    /\ shownView(closure) = "home"
    /\ LET out == handleJoinRoom(app, closure, nCalls + 1, roomIdInput)
       IN  /\ Called(out)
           /\ lastEvent' = [kind |-> "handleJoinRoom", sent |-> out.started # {}]
    /\ UNCHANGED startOk

\* a click on the ready button of the waiting view
ClickReady ==
    /\ shownView(closure) = "waiting"
    /\ LET out == handleToggleReady(app, closure, nCalls + 1)
       IN  /\ Called(out)
           /\ lastEvent' = [kind |-> "handleToggleReady", sent |-> out.started # {},
                            value |-> ~closure.isReady]
    /\ UNCHANGED startOk

\* handleStartGame is called from the waiting view
ClickStart ==
    /\ shownView(closure) = "waiting"
    /\ LET out == handleStartGame(app, closure, nCalls + 1)
       IN  /\ Called(out)
           /\ startOk' = IF out.resumed THEN FALSE ELSE startOk
           /\ lastEvent' = [kind |-> "handleStartGame", sent |-> out.started # {},
                            isCreator |-> closure.isCreator,
                            allReady |-> closure.allReady]

\* Leave Room of the waiting view (GameRoom never calls its onLeave prop)
ClickLeave ==
    /\ shownView(closure) = "waiting"
    /\ LET out == handleBackToHome(app, closure, nCalls + 1)
       IN  /\ Called(out)
           /\ lastEvent' = [kind |-> "handleBackToHome", sent |-> out.started # {}]
    /\ UNCHANGED startOk

\* the backend answers POST /create-room
CreateRoomSettles(call, outcome) ==
    /\ Rendered
    /\ call \in calls
    /\ call.at = "createRoom"
    /\ IF outcome = {}
       THEN LET out == createRoomResolved(app, call)
            IN  /\ Settle(out.app)
                /\ calls' = (calls \ {call}) \cup {out.call}
                /\ lastEvent' = [kind |-> "resolved", op |-> call.op, at |-> call.at]
       ELSE /\ Settle(attemptRejected(app, call, Get(outcome)))
            /\ calls' = calls \ {call}
            /\ lastEvent' = [kind |-> "rejected", op |-> call.op, at |-> call.at,
                             message |-> Get(outcome), room |-> app.room,
                             view |-> app.currentView]
    /\ UNCHANGED <<nCalls, nRooms, srvAccepted, srvStarted, startOk>>
    /\ UNCHANGED <<vars003, varsJsx, varsHtml, varsEvents, nEvents>>

\* the backend answers POST /join-room: the player is in the room anew, with no
\* ready value accepted yet
JoinRoomSettles(call, outcome) ==
    /\ Rendered
    /\ call \in calls
    /\ call.at = "joinRoom"
    /\ IF outcome = {}
       THEN LET out == joinRoomResolved(app, call, nRooms + 1)
            IN  /\ Settle(out.app)
                /\ calls' = (calls \ {call}) \cup {out.call}
                /\ nRooms' = nRooms + 1
                /\ srvAccepted' = {}
                /\ lastEvent' = [kind |-> "resolved", op |-> call.op, at |-> call.at]
       ELSE /\ Settle(attemptRejected(app, call, Get(outcome)))
            /\ calls' = calls \ {call}
            /\ UNCHANGED <<nRooms, srvAccepted>>
            /\ lastEvent' = [kind |-> "rejected", op |-> call.op, at |-> call.at,
                             message |-> Get(outcome), room |-> app.room,
                             view |-> app.currentView]
    /\ UNCHANGED <<nCalls, srvStarted, startOk>>
    /\ UNCHANGED <<vars003, varsJsx, varsHtml, varsEvents, nEvents>>

\* the LiveKit server answers newRoom.connect
ConnectSettles(call, outcome) ==
    /\ Rendered
    /\ call \in calls
    /\ call.at = "connect"
    /\ IF outcome = {}
       THEN /\ Settle(connectResolved(app, call))
            /\ lastEvent' = [kind |-> "resolved", op |-> call.op, at |-> call.at]
       ELSE /\ Settle(attemptRejected(app, call, Get(outcome)))
            /\ lastEvent' = [kind |-> "rejected", op |-> call.op, at |-> call.at,
                             message |-> Get(outcome), room |-> app.room,
                             view |-> app.currentView]
    /\ calls' = calls \ {call}
    /\ UNCHANGED <<nCalls, nRooms, srvAccepted, srvStarted, startOk>>
    /\ UNCHANGED <<vars003, varsJsx, varsHtml, varsEvents, nEvents>>

\* the backend handles POST /set-ready and accepts the value; its response is
\* on its way
SetReadyAccepted(call) ==
    /\ call \in calls
    /\ call.at = "setReady"
    /\ srvAccepted' = {call.value}
    /\ calls' = (calls \ {call}) \cup {[call EXCEPT !.at = "setReady response"]}
    /\ lastEvent' = [kind |-> "accepted", value |-> call.value]
    /\ UNCHANGED <<app, closure, interval, nCalls, taskCalls, nRooms, srvStarted,
                   startOk>>
    /\ UNCHANGED <<vars003, varsJsx, varsHtml, varsEvents, nEvents>>

\* the response of an accepted POST /set-ready arrives: setPlayerReady goes on
\* to updateRoomStatus, whose roomId is the one of the handler's render
SetReadyResolved(call) ==
    /\ Rendered
    /\ call \in calls
    /\ call.at = "setReady response"
    /\ calls' = (calls \ {call}) \cup {[call EXCEPT !.at = "getRoomStatus"]}
    /\ lastEvent' = [kind |-> "resolved", op |-> call.op, at |-> call.at]
    /\ UNCHANGED <<app, closure, interval, nCalls, taskCalls, nRooms,
                   srvAccepted, srvStarted, startOk>>
    /\ UNCHANGED <<vars003, varsJsx, varsHtml, varsEvents, nEvents>>

\* POST /set-ready fails
SetReadyRejected(call, message) ==
    /\ Rendered
    /\ call \in calls
    /\ call.at = "setReady"
    /\ Settle(setReadyRejected(app, message))
    /\ calls' = calls \ {call}
    /\ lastEvent' = [kind |-> "rejected", op |-> call.op, at |-> call.at, message |-> message,
                     room |-> app.room]
    /\ UNCHANGED <<nCalls, nRooms, srvAccepted, srvStarted, startOk>>
    /\ UNCHANGED <<vars003, varsJsx, varsHtml, varsEvents, nEvents>>

\* the backend answers the GET /room-status of setPlayerReady
ToggleStatusSettles(call, roomStatus) ==
    /\ Rendered
    /\ call \in calls
    /\ call.at = "getRoomStatus"
    /\ Settle(toggleResumed(app, call, roomStatus))
    /\ calls' = calls \ {call}
    /\ lastEvent' = [kind |-> "toggled", value |-> call.value]
    /\ UNCHANGED <<nCalls, nRooms, srvAccepted, srvStarted, startOk>>
    /\ UNCHANGED <<vars003, varsJsx, varsHtml, varsEvents, nEvents>>

\* the backend answers POST /start-game
StartSettles(call, outcome) ==
    /\ Rendered
    /\ call \in calls
    /\ call.at = "startGameSession"
    /\ IF outcome = {}
       THEN /\ Settle(startResumed(app))
            /\ srvStarted' = TRUE
            /\ startOk' = call.value
            /\ lastEvent' = [kind |-> "resolved", op |-> call.op, at |-> call.at]
       ELSE /\ Settle(startRejected(app, Get(outcome)))
            /\ UNCHANGED <<srvStarted, startOk>>
            /\ lastEvent' = [kind |-> "rejected", op |-> call.op, at |-> call.at,
                             message |-> Get(outcome), room |-> app.room,
                             view |-> app.currentView]
    /\ calls' = calls \ {call}
    /\ UNCHANGED <<nCalls, nRooms, srvAccepted>>
    /\ UNCHANGED <<vars003, varsJsx, varsHtml, varsEvents, nEvents>>

\* room.disconnect() settled, resolved or rejected: the finally block runs
DisconnectSettles(call) ==
    /\ Rendered
    /\ call \in calls
    /\ call.at = "room.disconnect"
    /\ Settle(disconnectFinally(app))
    /\ calls' = calls \ {call}
    /\ lastEvent' = [kind |-> "disconnected"]
    /\ UNCHANGED <<nCalls, nRooms, srvAccepted, srvStarted, startOk>>
    /\ UNCHANGED <<vars003, varsJsx, varsHtml, varsEvents, nEvents>>

\* the server closes the connection of the room: 'disconnected'
ServerDisconnects ==
    /\ Rendered
    /\ app.room # NoRoom
    /\ Settle(handleDisconnected(app))
    /\ lastEvent' = [kind |-> "handleDisconnected", by |-> "server"]
    /\ UNCHANGED <<calls, nCalls, nRooms, srvAccepted, srvStarted, startOk>>
    /\ UNCHANGED <<vars003, varsJsx, varsHtml, varsEvents, nEvents>>

\* the disconnect button of the game room: onDisconnect is room.disconnect(),
\* which makes the Room emit 'disconnected'
ClickDisconnect ==
    /\ nCalls < MaxCalls
    /\ Rendered
    /\ shownView(closure) = "game"
    /\ Settle(handleDisconnected(app))
    /\ nCalls' = nCalls + 1
    /\ lastEvent' = [kind |-> "handleDisconnected", by |-> "onDisconnect"]
    /\ UNCHANGED <<calls, nRooms, srvAccepted, srvStarted, startOk>>
    /\ UNCHANGED <<vars003, varsJsx, varsHtml, varsEvents, nEvents>>

\* the interval of the polling effect fires: updateRoomStatus of the render
\* that set the interval sends GET /room-status; the answer is taken to arrive
\* before the next event
PollTick(roomStatus) ==
    /\ Rendered
    /\ interval # ""
    /\ Settle(updateRoomStatus(app, roomStatus))
    /\ lastEvent' = [kind |-> "poll", roomId |-> interval]
    /\ UNCHANGED <<calls, nCalls, nRooms, srvAccepted, srvStarted, startOk>>
    /\ UNCHANGED <<vars003, varsJsx, varsHtml, varsEvents, nEvents>>

\* the creator of the other player's room starts the game there
OtherPlayerStartsGame ==
    /\ app.room # NoRoom
    /\ app.roomId = OtherRoom.room_id
    /\ ~srvStarted
    /\ srvStarted' = TRUE
    /\ lastEvent' = [kind |-> "started by creator"]
    /\ UNCHANGED <<app, closure, interval, calls, nCalls, taskCalls, nRooms,
                   srvAccepted, startOk>>
    /\ UNCHANGED <<vars003, varsJsx, varsHtml, varsEvents, nEvents>>

InitApp ==
    /\ app = InitialApp
    /\ closure = InitialApp
    /\ calls = {}
    /\ interval = ""
    /\ nCalls = 0
    /\ taskCalls = 0
    /\ nRooms = 0
    /\ srvAccepted = {}
    /\ srvStarted = FALSE
    /\ startOk = FALSE

Outcomes == {{}} \cup {{message} : message \in ErrorMessages}

NextApp ==
    \/ Render
    \/ SubmitCreate
    \/ \E roomIdInput \in RoomIdInputs : SubmitJoin(roomIdInput)
    \/ ClickReady
    \/ ClickStart
    \/ ClickLeave
    \/ ClickDisconnect
    \/ \E call \in calls, outcome \in Outcomes : CreateRoomSettles(call, outcome)
    \/ \E call \in calls, outcome \in Outcomes : JoinRoomSettles(call, outcome)
    \/ \E call \in calls, outcome \in Outcomes : ConnectSettles(call, outcome)
    \/ \E call \in calls : SetReadyAccepted(call)
    \/ \E call \in calls : SetReadyResolved(call)
    \/ \E call \in calls, message \in ErrorMessages : SetReadyRejected(call, message)
    \/ \E call \in calls, roomStatus \in {{}} \cup {{st} : st \in RoomStatuses} :
            ToggleStatusSettles(call, roomStatus)
    \/ \E call \in calls, outcome \in Outcomes : StartSettles(call, outcome)
    \/ \E call \in calls : DisconnectSettles(call)
    \/ ServerDisconnects
    \/ \E roomStatus \in {{}} \cup {{st} : st \in RoomStatuses} : PollTick(roomStatus)
    \/ OtherPlayerStartsGame

----------------------------------------------------------------------------
(* The specifications: one per variant; the variables of the other variants *)
(* stay as constructed.                                                     *)

vars == <<vars003, varsJsx, varsHtml, varsEvents, varsApp, lastEvent, nEvents>>

InitHistory ==
    /\ lastEvent = [kind |-> "init"]
    /\ nEvents = 0

Init ==
    /\ Init003
    /\ InitGameRoomJsx(<<>>)
    /\ InitHtml
    /\ InitEvents
    /\ InitApp
    /\ InitHistory

Next == Next003

Spec == Init /\ [][Next]_vars

InitJsx ==
    /\ Init003
    /\ \E initialParticipants \in Jsx_InitialParticipants :
            InitGameRoomJsx(initialParticipants)
    /\ InitHtml
    /\ InitEvents
    /\ InitApp
    /\ InitHistory

NextJsx == NextGameRoomJsx

SpecJsx == InitJsx /\ [][NextJsx]_vars

InitFirst ==
    /\ Init003
    /\ InitGameRoomJsx(<<>>)
    /\ InitHtml
    /\ InitEvents
    /\ InitApp
    /\ InitHistory

NextFirst == NextEvents

SpecEvents == InitFirst /\ [][NextFirst]_vars

InitPage ==
    /\ Init003
    /\ InitGameRoomJsx(<<>>)
    /\ InitHtml
    /\ InitEvents
    /\ InitApp
    /\ InitHistory

NextPage == NextHtml

SpecHtml == InitPage /\ [][NextPage]_vars

InitAppOnly ==
    /\ Init003
    /\ InitGameRoomJsx(<<>>)
    /\ InitHtml
    /\ InitEvents
    /\ InitApp
    /\ InitHistory

SpecApp == InitAppOnly /\ [][NextApp]_vars

\* what the environment owes: React renders, the interval keeps firing and
\* every request is answered; nothing is owed by the player
Answers ==
    \/ \E call \in calls, outcome \in Outcomes : CreateRoomSettles(call, outcome)
    \/ \E call \in calls, outcome \in Outcomes : JoinRoomSettles(call, outcome)
    \/ \E call \in calls, outcome \in Outcomes : ConnectSettles(call, outcome)
    \/ \E call \in calls : SetReadyAccepted(call)
    \/ \E call \in calls : SetReadyResolved(call)
    \/ \E call \in calls, roomStatus \in {{}} \cup {{st} : st \in RoomStatuses} :
            ToggleStatusSettles(call, roomStatus)
    \/ \E call \in calls, outcome \in Outcomes : StartSettles(call, outcome)
    \/ \E call \in calls : DisconnectSettles(call)

SpecAppFair ==
    /\ InitAppOnly
    /\ [][NextApp]_vars
    /\ WF_vars(Render)
    /\ WF_vars(\E roomStatus \in {{}} \cup {{st} : st \in RoomStatuses} : PollTick(roomStatus))
    /\ WF_vars(Answers)

----------------------------------------------------------------------------
(* Properties of part_003 (specification Spec) *)

\* the last event was a decodable data message
LastIsMessage ==
    IF lastEvent.kind = "data" THEN lastEvent.payload.wellFormed ELSE FALSE

LastMessage == Get(lastEvent.payload.value)

\* the last event was a game_state_update with this update_type
LastIsUpdate(update_type) ==
    IF LastIsMessage
    THEN LastMessage.type = "game_state_update" /\ LastMessage.update_type = {update_type}
    ELSE FALSE

KnownUpdateTypes ==
    {"day_phase_start", "night_phase_start", "debate_update", "voting_phase",
     "voting_started", "vote_received", "voting_ended", "voting_results",
     "player_exiled", "player_update", "phase_change", "game_state"}

KnownTypes ==
    {"game_state_update", "request_vote", "can_speak", "debate_turn", "speaking_ended",
     "request_target_selection", "announcement", "vote", "target_selection", "chat",
     "action"}

\* the last event was a message of a kind that is not recognized
LastIsUnknown ==
    IF LastIsMessage
    THEN IF LastMessage.type = "game_state_update"
         THEN Has(LastMessage.update_type)
              /\ Get(LastMessage.update_type) \notin KnownUpdateTypes
         ELSE LastMessage.type \notin KnownTypes
    ELSE FALSE

\* C2: a vote_received message leaves in voting.votes the message's target for
\* its voter (overwriting an earlier vote of that voter), adds no other key and
\* leaves every other voter's entry as it was.
C2_LastWriteWins ==
    LastIsUpdate("vote_received") =>
        LET voter == Get(DataOf(LastMessage).voter)
            target == Get(DataOf(LastMessage).target)
            votes == gameState.voting.votes
            before == prev.voting.votes
        IN  /\ DOMAIN votes = DOMAIN before \cup {voter}
            /\ votes[voter] = target
            /\ \A other \in DOMAIN before \ {voter} : votes[other] = before[other]

\* a vote_received overwrote the voter's earlier, different target while another
\* voter's entry stayed
C2_Witness ==
    /\ LastIsUpdate("vote_received")
    /\ LET voter == Get(DataOf(LastMessage).voter)
       IN  /\ voter \in DOMAIN prev.voting.votes
           /\ prev.voting.votes[voter] # Get(DataOf(LastMessage).target)
           /\ gameState.voting.votes[voter] = Get(DataOf(LastMessage).target)
           /\ DOMAIN gameState.voting.votes # {voter}

\* C3: when the vote_received echo for the local identity is applied after the
\* local player voted, voting.voted_player equals the echoed target.
C3_EchoAuthoritative ==
    (/\ LastIsUpdate("vote_received")
     /\ prev.voting.voted_player # Null) =>
        (Get(DataOf(LastMessage).voter) = LocalId
            => gameState.voting.voted_player = Get(DataOf(LastMessage).target))

\* C4: no event turns a player whose isAlive is false into one whose isAlive is
\* true.
C4_NeverRevived ==
    \A i \in 1..Len(prev.players) : \A j \in 1..Len(gameState.players) :
        (prev.players[i].id = gameState.players[j].id /\ ~prev.players[i].isAlive)
            => ~gameState.players[j].isAlive

\* C5: debate.turns_left equals max(0, debate.max_turns - debate.current_turn).
C5_TurnsLeftDerived ==
    gameState.debate.turns_left =
        Max(0, gameState.debate.max_turns - gameState.debate.current_turn)

C7_DecodeErrorDropped ==
    /\ ~uncaught
    /\ (lastEvent.kind = "data" /\ ~LastIsMessage) =>
            (gameState = prev /\ consoleErrors > 0)
    /\ (consoleErrors > 0 /\ LastIsUpdate("day_phase_start")) => gameState.phase = "day"

\* after a decode error a later day_phase_start was applied to a state that was
\* not in the day phase
C7_Witness ==
    /\ consoleErrors > 0
    /\ LastIsUpdate("day_phase_start")
    /\ prev.phase # "day"
    /\ gameState.phase = "day"

\* C10: while targetSelection.active, every option is the id of a player in
\* players whose isAlive is true.
C10_OptionsAlive ==
    gameState.targetSelection.active =>
        Range(gameState.targetSelection.options) \subseteq aliveIds(gameState)

\* C11: while the phase is day, a debate_update never lowers debate.current_turn,
\* and debate.current_turn is 0 right after a day_phase_start.
C11_TurnNeverDecreases ==
    /\ (LastIsUpdate("debate_update") /\ prev.phase = "day") =>
            gameState.debate.current_turn >= prev.debate.current_turn
    /\ LastIsUpdate("day_phase_start") => gameState.debate.current_turn = 0

\* C12: a vote_received adds or changes an entry of voting.votes only when its
\* voter and its target are alive players and the voter does not vote for
\* itself; otherwise voting.votes stays as it was.
C12_VotesOnlyFromAlivePlayers ==
    LastIsUpdate("vote_received") =>
        LET voter == StrOf(DataOf(LastMessage).voter)
            target == StrOf(DataOf(LastMessage).target)
            valid == /\ voter \in aliveIds(prev)
                     /\ target \in aliveIds(prev)
                     /\ voter # target
        IN  valid \/ gameState.voting.votes = prev.voting.votes

\* the last event is a click on "Vote to eliminate" whose publish failed
LastVoteFailed ==
    IF lastEvent.kind = "vote" THEN lastEvent.publish # "sent" ELSE FALSE

\* C15: a vote whose publish failed returns a failure result to the voting
\* interface, sends nothing, and leaves the interface open for another vote
\* (voted_player is not written).
C15_FailedVoteSurfacedAndRetryable ==
    LastVoteFailed =>
        /\ lastEvent.result = "false"
        /\ outbox = <<>> \/ outbox[Len(outbox)].target # lastEvent.target
        /\ ~hasVoted(gameState)

\* messages delivered back to back, before React renders again
BackToBack ==
    {Upd("vote_received", {[EmptyData EXCEPT !.voter = {vt[1]}, !.target = {vt[2]}]}) :
        vt \in {<<"A", "B">>, <<"B", "C">>}}
    \cup {Upd("debate_update", {}),
          Upd("player_exiled", {[EmptyData EXCEPT !.player = {"B"}]}),
          Direct("request_vote", {})}
    \cup {m \in CombinedMessages : m.update_type = {"debate_update"}}

IsPrefix(short, long) ==
    /\ Len(short) <= Len(long)
    /\ \A i \in 1..Len(short) : short[i] = long[i]

\* C17: logs is append-only: the logs before an inbound message are a prefix of
\* the logs after it.
C17_LogsAppendOnly == LastIsMessage => IsPrefix(prev.logs, gameState.logs)

\* the last event published a vote or a target_selection
LastIsSend ==
    IF lastEvent.kind \in {"vote", "target"} THEN lastEvent.publish = "sent" ELSE FALSE

\* the ids of the players whose isAlive is false
eliminatedIds(state) ==
    {playerId(state.players[i]) : i \in {j \in 1..Len(state.players) :
                                            ~state.players[j].isAlive}}

\* C19: a vote or target_selection message never names a player whose isAlive
\* is false when it is sent.
C19_SendNeverNamesEliminated == LastIsSend => lastEvent.target \notin eliminatedIds(prev)

\* C20: once the local player's own record has isAlive false, the client
\* publishes no vote and no target_selection.
C20_EliminatedLocalPlayerSendsNothing ==
    LastIsSend => PlayerName \notin eliminatedIds(prev)

\* the ids of a player list, in order
idsOf(players) == [i \in 1..Len(players) |-> players[i].id]

\* C21: a day_phase_start leaves phase day, the payload's round, the payload's
\* players when it carries players (the players as they were otherwise),
\* debate.current_speaker null, debate.current_turn 0, an empty debate.history
\* and voting.active false; from the lobby, {round: 1, players: [A, B, C]}
\* leaves three players.
C21_DayPhaseStartApplied ==
    LastIsUpdate("day_phase_start") =>
        LET data == DataOf(LastMessage)
        IN  /\ gameState.phase = "day"
            /\ Has(data.round) => gameState.round = Get(data.round)
            /\ Has(data.players) => idsOf(gameState.players) = idsOf(Get(data.players))
            /\ (~Has(data.players) /\ ~Has(LastMessage.game_state)) =>
                    gameState.players = prev.players
            /\ gameState.debate.current_speaker = Null
            /\ gameState.debate.current_turn = 0
            /\ gameState.debate.history = <<>>
            /\ ~gameState.voting.active

\* C22: a debate_update appends one entry {speaker, dialogue, turn} to
\* debate.history when its payload has both a speaker and a dialogue and appends
\* nothing otherwise; either way debate.current_speaker is the payload's speaker
\* and debate.current_turn its turn, or the turn before plus 1 without a turn.
C22_DebateUpdateApplied ==
    LastIsUpdate("debate_update") =>
        LET data == DataOf(LastMessage)
            entry == [speaker |-> StrOf(data.speaker), dialogue |-> StrOf(data.dialogue),
                      turn |-> data.turn]
        IN  /\ gameState.debate.history =
                   IF Has(data.speaker) /\ Has(data.dialogue)
                   THEN Append(prev.debate.history, entry)
                   ELSE prev.debate.history
            /\ gameState.debate.current_speaker = StrOf(data.speaker)
            /\ gameState.debate.current_turn =
                   IF Has(data.turn) THEN Get(data.turn)
                   ELSE prev.debate.current_turn + 1

\* C23: a voting_phase or a voting_started leaves voting.active true, an empty
\* voting.votes and voting.voted_player null; voting_phase also leaves phase
\* voting.
C23_VotingRoundStartsClean ==
    (LastIsUpdate("voting_phase") \/ LastIsUpdate("voting_started")) =>
        /\ gameState.voting.active
        /\ gameState.voting.votes = EmptyMap
        /\ gameState.voting.voted_player = Null
        /\ LastIsUpdate("voting_phase") => gameState.phase = "voting"

\* the positions of the players a player_exiled for x names: the players whose
\* id is x, and the players whose name is x only when no player has the id x
namedBy(players, x) ==
    LET byId == {i \in 1..Len(players) : players[i].id = x}
        byName == {i \in 1..Len(players) : players[i].name = x}
    IN  IF byId # {} THEN byId ELSE byName

\* C24: a player_exiled sets isAlive false for the player whose id is the named
\* value, or, when no player has that id, the player whose name is that value;
\* every other player record and every other field of gameState stay as they
\* were, and a value matching no player changes nothing.
C24_ExileMarksOnlyTheNamedPlayer ==
    (IF LastIsUpdate("player_exiled") THEN ~Has(LastMessage.game_state) ELSE FALSE) =>
        LET x == StrOf(DataOf(LastMessage).player)
        IN  gameState =
                [prev EXCEPT !.players =
                    [i \in 1..Len(@) |->
                        IF i \in namedBy(prev.players, x)
                        THEN [@[i] EXCEPT !.isAlive = FALSE] ELSE @[i]]]

\* C26: a game_state_update with update_type phase_change leaves phase equal to
\* the payload's phase, and round equal to the payload's round when it carries
\* one (round as it was otherwise).
C26_PhaseChangeApplied ==
    LastIsUpdate("phase_change") =>
        LET data == DataOf(LastMessage)
        IN  /\ gameState.phase = StrOf(data.phase)
            /\ gameState.round = IF Has(data.round) THEN Get(data.round) ELSE prev.round

\* { ...p, ...data } for the fields of a player record a payload carries
mergedInto(p, data) ==
    [p EXCEPT !.isAlive = IF Has(data.isAlive) THEN Get(data.isAlive) ELSE @,
              !.role = IF Has(data.role) THEN Get(data.role) ELSE @]

\* C27: a player_update merges the payload's fields into the player whose id is
\* the payload's id and leaves every other player, the order and length of
\* players and every other field of gameState as they were; an id matching no
\* player changes nothing.
C27_PlayerUpdateMerged ==
    LastIsUpdate("player_update") =>
        LET data == DataOf(LastMessage)
        IN  gameState =
                [prev EXCEPT !.players =
                    [i \in 1..Len(@) |->
                        IF @[i].id = StrOf(data.id) THEN mergedInto(@[i], data) ELSE @[i]]]

\* a speak-timeout timer fired while can_speak was on with the prompt of a
\* debate_turn: the flag had been re-enabled by a debate_turn that arrived after
\* the can_speak message whose timer this is (a can_speak writes its own prompt)
LastIsStaleSpeakTimeout ==
    /\ lastEvent.kind = "timer"
    /\ prev.interaction.can_speak
    /\ prev.interaction.speaking_prompt = "It's your turn to speak!"

\* C29: the auto-clear timer of an earlier can_speak does not switch can_speak
\* off once a later debate_turn has switched it on again.
C29_StaleTimerKeepsReenabledFlag ==
    LastIsStaleSpeakTimeout => gameState.interaction.can_speak

\* the last event was a message that carries a full game_state without a
\* players field and no update_type
LastIsMergeWithoutPlayers ==
    IF LastIsMessage
    THEN /\ LastMessage.type = "game_state_update"
         /\ ~Has(LastMessage.update_type)
         /\ (IF Has(LastMessage.game_state)
             THEN ~Has(Get(LastMessage.game_state).players) ELSE FALSE)
    ELSE FALSE

\* C30: the merge of a full game_state that carries no players field leaves
\* the players list as it was.
C30_MergeWithoutPlayersKeepsPlayers ==
    LastIsMergeWithoutPlayers => gameState.players = prev.players

\* the last event was a message that opens a voting round for the local
\* player: voting_started, request_vote or a day start
LastIsVotingReset ==
    \/ LastIsUpdate("voting_started")
    \/ LastIsUpdate("day_phase_start")
    \/ (IF LastIsMessage THEN LastMessage.type = "request_vote" ELSE FALSE)

\* C31: the voting interface takes a selection or a confirmation only while
\* voting.voted_player is null, a confirmation leaves it non-null, and only
\* voting_started, request_vote or a day start make it null again: between two
\* such resets at most one vote is published.
C31_OneVotePerRound ==
    /\ lastEvent.kind \in {"select", "vote"} => ~hasVoted(prev)
    /\ lastEvent.kind = "vote" => hasVoted(gameState)
    /\ (hasVoted(prev) /\ gameState.voting.voted_player # prev.voting.voted_player) =>
            (LastIsVotingReset /\ ~hasVoted(gameState))

\* the local player's vote was published, a message arrived afterwards, the
\* voting interface is still shown and the vote is still the only one sent
C31_Witness ==
    /\ LastIsMessage
    /\ ~LastIsVotingReset
    /\ hasVoted(prev)
    /\ hasVoted(gameState)
    /\ gameState.voting.active
    /\ Len(outbox) = 1
    /\ outbox[1].type = "vote"

\* C32: a target_selection is published only while targetSelection.active, for
\* a target that is then one of targetSelection.options, an alive player and
\* not the local player; afterwards targetSelection is closed and empty.
C32_TargetSelectionValid ==
    (IF lastEvent.kind = "target" THEN lastEvent.publish = "sent" ELSE FALSE) =>
        /\ prev.targetSelection.active
        /\ lastEvent.target \in Range(prev.targetSelection.options)
        /\ lastEvent.target \in aliveIds(prev)
        /\ lastEvent.target # PlayerName
        /\ gameState.targetSelection =
               [active |-> FALSE, action |-> Null, options |-> <<>>, prompt |-> ""]


\* part_003 after its unmount: gameState is what it was before the last event
\* and no speak-timeout callback runs
UnmountedStateFrozen ==
    ~isMounted => (gameState = prev /\ lastEvent.kind # "timer")

\* part_003: a can_speak message was delivered after the unmount, which had
\* cleared the pending speak timer of an earlier can_speak
UnmountedStateFrozen_Reached ==
    /\ ~isMounted
    /\ timers = {}
    /\ speakTimeoutRef # 0
    /\ gameState.interaction.can_speak
    /\ gameState.interaction.speaking_prompt \notin {"", "It's your turn to speak!"}
    /\ IF lastEvent.kind = "ignored" /\ lastEvent.payload.wellFormed
       THEN LastMessage.type = "can_speak" ELSE FALSE

----------------------------------------------------------------------------
(* Properties of the first GameRoom of part_003 (specification SpecEvents) *)

\* the last event is a user_action message with action can_speak
LastIsCanSpeakAction ==
    /\ LastIsMessage
    /\ LastMessage.type = "user_action"
    /\ LastMessage.top.action = {"can_speak"}

\* C18: right after a can_speak message the auto-clear timer is pending, due
\* after the message's timeout, or after 5 seconds when it carries none.
C18_AutoClearScheduled ==
    LastIsCanSpeakAction =>
        /\ evGameState.interaction.can_speak
        /\ \E t \in evTimers :
              /\ t.id = evSpeakTimeoutRef
              /\ t.left = NumOr(LastMessage.top.timeout, DefaultSpeakTimeout)

----------------------------------------------------------------------------
(* Properties of GameRoom.jsx (specification SpecJsx) *)

\* C1: the auto-clear timer of a can_speak message never fires after a later
\* can_speak message arrived: when a can_speak timer fires, no can_speak timer
\* scheduled after it is pending.
C1_EarlierTimerCancelled ==
    (IF lastEvent.kind = "timer" THEN lastEvent.timer = "can_speak" ELSE FALSE) =>
        ~\E t \in jsxTimers : t.kind = "can_speak" /\ t.id > lastEvent.id

\* C9: the ids of the entries of players are pairwise distinct.
C9_PlayerIdsDistinct ==
    \A i, j \in 1..Len(jsxGameState.players) :
        jsxGameState.players[i].id = jsxGameState.players[j].id => i = j

\* the component as it is now, and a player_exiled message for a player
JsxNow == Jsx_Component(jsxGameState, canSpeak, isVoting, votedPlayer, currentTurn)

ExileMessage(x) == Upd("player_exiled", {[EmptyData EXCEPT !.player = {x}]})

\* the number of log entries that report the elimination of x
ExileLogs(x) ==
    Cardinality({i \in 1..Len(jsxGameState.logs) :
                    jsxGameState.logs[i] = Jsx_Log("has been eliminated", x, "", 0)})

\* C13 as stated: applying player_exiled for a player twice yields the same
\* state as applying it once.
C13_ExileTwiceSameState ==
    \A x \in {jsxGameState.players[i].id : i \in 1..Len(jsxGameState.players)} :
        LET once == Jsx_handleGameMessage(JsxNow, ExileMessage(x), 0)
            twice == Jsx_handleGameMessage(once, ExileMessage(x), 0)
        IN  twice.gameState = once.gameState

\* C13 as amended: applying player_exiled for a player twice yields the same
\* state as applying it once except for the log, which gets one entry per
\* application; the player's isAlive is false, and nothing is thrown.
C13_ExileIdempotentButLog ==
    \A x \in Ids :
        LET once == Jsx_handleGameMessage(JsxNow, ExileMessage(x), 0)
            twice == Jsx_handleGameMessage(once, ExileMessage(x), 0)
        IN  /\ [twice.gameState EXCEPT !.logs = once.gameState.logs] = once.gameState
            /\ Len(twice.gameState.logs) = Len(once.gameState.logs) + 1
            /\ \A i \in 1..Len(twice.gameState.players) :
                    twice.gameState.players[i].id = x =>
                        twice.gameState.players[i].isAlive = {FALSE}
            /\ ~twice.crashed
            /\ twice.errors = 0

\* player_exiled was applied twice for a player of the list, who is dead
C13_Witness ==
    /\ LastIsUpdate("player_exiled")
    /\ LET x == Get(DataOf(LastMessage).player)
       IN  /\ ExileLogs(x) = 2
           /\ \E i \in 1..Len(jsxGameState.players) :
                  /\ jsxGameState.players[i].id = x
                  /\ jsxGameState.players[i].isAlive = {FALSE}

\* C14: once the game room has been removed from the tree (server disconnect,
\* Leave Room, unmount), no timer is left pending.
C14_NoTimerPendingAfterUnmount == jsxUnmounted => jsxTimers = {}

\* C25: a voting_ended leaves voting inactive and voting.results equal to the
\* payload's votes, or to the votes accumulated so far when the payload carries
\* none (voting.votes itself is not changed by the message).
C25_VotingEndedKeepsResults ==
    LastIsUpdate("voting_ended") =>
        LET data == DataOf(LastMessage)
        IN  /\ jsxGameState.voting.isActive = {FALSE}
            /\ jsxGameState.voting.results =
                   IF Has(data.votes) THEN {Get(data.votes)} ELSE jsxGameState.voting.votes

\* the direct messages that prompt the local player
PromptMessages ==
    {m \in Jsx_Messages :
        m.type \in {"request_vote", "request_target_selection", "can_speak",
                    "debate_turn", "speaking_ended"}}

\* the sub-state a prompt is about
ownSubState(message) ==
    CASE message.type = "request_vote" -> "voting"
      [] message.type = "request_target_selection" -> "targetSelection"
      [] OTHER -> "interaction"

\* the three sub-states of the component
subStates(c) ==
    [voting |-> <<c.isVoting, c.votedPlayer, c.gameState.voting>>,
     targetSelection |-> c.gameState.targetSelection,
     interaction |-> c.canSpeak]

\* the component without the three sub-states and the timers just scheduled
restOf(c) ==
    [c EXCEPT !.isVoting = FALSE, !.votedPlayer = Null, !.canSpeak = FALSE,
              !.scheduled = {},
              !.gameState = [@ EXCEPT !.voting = Jsx_NoVoting,
                                      !.targetSelection = Jsx_InitialGameState.targetSelection]]

\* C28 as stated: request_vote, request_target_selection and can_speak /
\* debate_turn / speaking_ended each change their own sub-state (voting,
\* targetSelection, interaction) and nothing else.
C28_PromptChangesOnlyItsSubState ==
    \A m \in PromptMessages :
        LET after == Jsx_handleGameMessage(JsxNow, m, nEvents)
        IN  /\ \A k \in {"voting", "targetSelection", "interaction"} \ {ownSubState(m)} :
                  subStates(after)[k] = subStates(JsxNow)[k]
            /\ restOf(after) = restOf(JsxNow)

\* C28 as amended: each of these messages changes its own sub-state and appends
\* one log entry; the other two sub-states and every other field stay as they
\* were.
C28_PromptsAreIndependent ==
    \A m \in PromptMessages :
        LET after == Jsx_handleGameMessage(JsxNow, m, nEvents)
        IN  /\ \A k \in {"voting", "targetSelection", "interaction"} \ {ownSubState(m)} :
                  subStates(after)[k] = subStates(JsxNow)[k]
            /\ restOf([after EXCEPT !.gameState.logs = jsxGameState.logs]) = restOf(JsxNow)
            /\ Len(after.gameState.logs) = Len(jsxGameState.logs) + 1

\* the voting prompt, the target selection and the permission to speak are all
\* on, the last of them switched on by the message just handled
C28_Witness ==
    /\ (IF LastIsMessage THEN LastMessage \in PromptMessages ELSE FALSE)
    /\ isVoting
    /\ jsxGameState.targetSelection.active
    /\ canSpeak
    /\ ~jsxCrashed


\* C33: after the GameRoom component is unmounted nothing of it runs any more:
\* no inbound message is handled and no speak-timeout callback that was pending
\* at the unmount runs its state update.
C33_NothingRunsAfterUnmount ==
    jsxUnmounted => lastEvent.kind \notin {"data", "timer"}

----------------------------------------------------------------------------
(* Properties of part_000 (specification SpecHtml) *)

\* the last event was a game_state_update carrying day_phase_start and a game_state
LastIsCombinedDayStart ==
    IF LastIsUpdate("day_phase_start") THEN Has(LastMessage.game_state) ELSE FALSE

\* C8: when a message carries a game_state and an update_type delta, the fields
\* both write hold the delta's value: after day_phase_start the round shown is
\* the delta's round and the players are the delta's players.
C8_DeltaWins ==
    LastIsCombinedDayStart =>
        /\ html.roundText = Html_text(NumOr(LastMessage.top.round, html.currentRound))
        /\ html.players = (IF Has(LastMessage.top.players)
                           THEN Get(LastMessage.top.players) ELSE <<>>)


----------------------------------------------------------------------------
(* Properties of the App and the useLiveKit hook (specification SpecApp) *)

\* the createNewRoom / joinExistingRoom calls that are past their guard and
\* before their finally block
attempts == {call \in calls : call.op \in {"createNewRoom", "joinExistingRoom"}}

\* C34: at most one room connection attempt is in flight at any time: a call
\* of createNewRoom or joinExistingRoom made while another one is in flight
\* (also before React rendered) contacts no backend and constructs no Room.
C34_OneAttemptInFlight == Cardinality(attempts) <= 1

LastIsAttemptRejected ==
    IF lastEvent.kind = "rejected"
    THEN lastEvent.op \in {"createNewRoom", "joinExistingRoom"}
    ELSE FALSE

LastIsAttemptResolved ==
    IF lastEvent.kind = "resolved"
    THEN lastEvent.op \in {"createNewRoom", "joinExistingRoom"} /\ lastEvent.at = "connect"
    ELSE FALSE

\* C35: isConnecting is true only while an attempt is in flight and is false
\* as soon as an attempt ends, by success or by failure; a failed attempt
\* leaves the hook's error set to the failure message, leaves room and the
\* App's view as they were, and the App shows the home view if room is null.
C35_AttemptAlwaysEnds ==
    /\ app.isConnecting => attempts # {}
    /\ LastIsAttemptResolved => ~app.isConnecting
    /\ LastIsAttemptRejected =>
            /\ ~app.isConnecting
            /\ app.liveKitError = lastEvent.message
            /\ app.room = lastEvent.room
            /\ app.currentView = lastEvent.view
            /\ (app.room = NoRoom => shownView(app) = "home")

\* an attempt failed at the connect of its Room, after the backend had let the
\* player join: the App is on the home view, room is null, the error is set
C35_Witness ==
    /\ LastIsAttemptRejected
    /\ lastEvent.at = "connect"
    /\ app.room = NoRoom
    /\ app.roomId # ""
    /\ shownView(app) = "home"
    /\ app.liveKitError = "Failed to fetch"
    /\ ~app.isConnecting

\* C36: currentView is 'game' only when gameStarted is set and the
\* handleStartGame that set them ran with isCreator and allReady true and its
\* start-game request succeeded.
C36_GameViewOnlyAfterStart ==
    app.currentView = "game" => (app.gameStarted /\ startOk)

\* the App shows the game room after the creator's start-game request succeeded
C36_Witness ==
    /\ shownView(app) = "game"
    /\ app.isCreator
    /\ app.allReady
    /\ startOk
    /\ IF lastEvent.kind = "resolved" THEN lastEvent.op = "handleStartGame" ELSE FALSE

\* C37: once the game of the room was started, a player who is in the waiting
\* view reaches the game view (or leaves the waiting view otherwise).
C37_WaitingPlayersReachGame ==
    (srvStarted /\ shownView(app) = "waiting") ~> (shownView(app) # "waiting")

\* the player has left the room: the disconnect of handleBackToHome is over, or
\* the Room emitted 'disconnected' (closed by the server, or by the disconnect
\* button of the game room)
LastIsLeft == lastEvent.kind \in {"disconnected", "handleDisconnected"}

\* C38: after the player has left a room, the session state of the hook is
\* reset and the polling interval is cleared.
C38_LeftMeansReset ==
    LastIsLeft =>
        /\ app.room = NoRoom
        /\ app.roomId = ""
        /\ app.roomName = ""
        /\ ~app.isCreator
        /\ app.roomPlayers = EmptyMap
        /\ ~app.allReady
        /\ interval = ""

togglesInFlight == {call \in calls : call.op = "handleToggleReady"}

\* C39: in the waiting view, while no set-ready request of handleToggleReady
\* is in flight, isReady is the ready value the backend accepted last.
C39_ReadyMatchesBackend ==
    (shownView(app) = "waiting" /\ togglesInFlight = {} /\ srvAccepted # {}) =>
        app.isReady = Get(srvAccepted)

====
